---- MODULE Spec2Model ----
(***************************************************************************)
(* Model of the Terra EDA library tools: the S-expression parser, the      *)
(* field normalisation / value resolution of kicad_sym_to_db.py, and the   *)
(* partitioned SQL dumper of db_to_tables.py (with sql_escape of           *)
(* db_to_sql.py).  Python strings are sequences of one-character strings;  *)
(* Python's None is the value None below.                                  *)
(***************************************************************************)
EXTENDS Integers, Sequences, FiniteSets, TLC

VARIABLES
  \* SExpressionParser: self.text, self.pos, the lists under construction on
  \* the call stack of parse(), the value parse() returned, the control point
  text, pos, stack, result, pc,
  \* the tree whose serialization by format_sexp is the text, when the text
  \* was written by strip_symbol_properties
  tree,
  \* kicad_sym_to_db.main: the extracted symbol dicts, the field_mappings and
  \* field_mapping_patterns sections of the config, the collected field names,
  \* the field mapping, the dict prepare_symbol_values returned for each
  \* symbol, the control point, the library_name argument of
  \* extract_symbols_from_sexp, the column_edits section of the config
  symbols, name_mappings, mapping_patterns, fields, field_mapping,
  column_values, rpc, library_name, column_edits,
  \* the column list generate_create_table_sql got from get_unique_columns
  unique_columns,
  \* db_to_tables: the table's schema and rows, the files of the table's
  \* directory, dump runs done, row edits done since the last run
  schema, rows, files, runs, edits,
  \* sql_escape: the cell value and what each dumper made of it
  cell, escaped,
  \* the connections opened by sqlite3.connect and not yet closed
  open_conns,
  \* migrate_data: the rows of the symbols table in Symbol_Name order, the
  \* step at which the store fails (if any), the control point, the tables
  \* of the target database, part_counter, the index of the row at hand,
  \* its table_name, the (table, part_id) pairs inserted
  old_rows, fault, mpc, target_tables, part_counter, row_index, table_name, migrated,
  \* dump_database_to_tables, dump_database_to_sql, generate_dbl_file: which
  \* of them runs, the step at which the store fails (if any), the control
  \* point, the tables of the database in name order, the index of the table
  \* at hand, the files of each table's directory
  op, dfault, dpc, db_tables, table_index, dirs,
  \* kicad_sym_to_db.main: the status of sys.exit, "none" while main runs
  exit_status

parserVars  == <<text, pos, stack, result, pc, tree>>
resolveVars == <<symbols, name_mappings, mapping_patterns, fields, field_mapping,
                 column_values, rpc, library_name, column_edits, unique_columns>>
dumpVars    == <<schema, rows, files, runs, edits>>
escapeVars  == <<cell, escaped>>
migrateVars == <<old_rows, fault, mpc, target_tables, part_counter, row_index,
                 table_name, migrated>>
databaseVars == <<op, dfault, dpc, db_tables, table_index, dirs>>
toolVars    == <<open_conns, migrateVars, databaseVars, exit_status>>
vars == <<text, pos, stack, result, pc, tree, symbols, name_mappings,
          mapping_patterns, fields, field_mapping, column_values, rpc,
          library_name, column_edits, unique_columns, schema, rows, files, runs, edits, cell,
          escaped, toolVars>>

\* No database tool is running
MigrateIdle ==
  /\ old_rows = <<>>
  /\ fault = "none"
  /\ mpc = "idle"
  /\ target_tables = {}
  /\ part_counter = <<>>
  /\ row_index = 0
  /\ table_name = "none"
  /\ migrated = <<>>
DatabaseIdle ==
  /\ op = "none"
  /\ dfault = "none"
  /\ dpc = "idle"
  /\ db_tables = <<>>
  /\ table_index = 0
  /\ dirs = <<>>
ToolsIdle ==
  /\ open_conns = {}
  /\ MigrateIdle
  /\ DatabaseIdle
  /\ exit_status = "none"

----------------------------------------------------------------------------
(* Characters and strings *)

\* The characters used, in ascending code-point order (Python compares
\* strings by code point).
AsciiOrder ==
  <<" ", "\"", "'", "(", ")", "+", "-", ".",
    "0", "1", "2", "3", "4", "5", "6", "7", "8", "9", ":", "=",
    "A", "B", "C", "D", "E", "F", "G", "H", "I", "J", "K", "L", "M",
    "N", "O", "P", "Q", "R", "S", "T", "U", "V", "W", "X", "Y", "Z",
    "\\", "_",
    "a", "b", "c", "d", "e", "f", "g", "h", "i", "j", "k", "l", "m",
    "n", "o", "p", "q", "r", "s", "t", "u", "v", "w", "x", "y", "z">>

\* ord(c), up to the characters left out
CharCode ==
  [c \in {AsciiOrder[i] : i \in 1..Len(AsciiOrder)} |->
     CHOOSE i \in 1..Len(AsciiOrder) : AsciiOrder[i] = c]
Ord(c) == CharCode[c]

Upper == {"A", "B", "C", "D", "E", "F", "G", "H", "I", "J", "K", "L", "M",
          "N", "O", "P", "Q", "R", "S", "T", "U", "V", "W", "X", "Y", "Z"}
Lower == {"a", "b", "c", "d", "e", "f", "g", "h", "i", "j", "k", "l", "m",
          "n", "o", "p", "q", "r", "s", "t", "u", "v", "w", "x", "y", "z"}
Digit == {"0", "1", "2", "3", "4", "5", "6", "7", "8", "9"}

\* str.isspace()
IsSpace(c) == c \in {" ", "\t", "\n", "\r"}

\* the regular expression class \w
IsWord(c) == c \in Upper \cup Lower \cup Digit \cup {"_"}

\* str.lower() on one character and on a string
LowerChar(c) == IF c \in Upper THEN AsciiOrder[Ord(c) + (Ord("a") - Ord("A"))] ELSE c
LowerStr(s) == [i \in 1..Len(s) |-> LowerChar(s[i])]

\* Python's s < t on strings
RECURSIVE StrLess(_, _)
StrLess(s, t) ==
  IF t = <<>> THEN FALSE
  ELSE IF s = <<>> THEN TRUE
  ELSE IF s[1] # t[1] THEN Ord(s[1]) < Ord(t[1])
  ELSE StrLess(Tail(s), Tail(t))

\* Python's None, and a str value
None == [k |-> "None", s |-> <<>>, items |-> <<>>]
Str(s) == [k |-> "str", s |-> s, items |-> <<>>]
\* a Python list of nodes
List(xs) == [k |-> "list", s |-> <<>>, items |-> xs]
\* no value: parse() has not returned
Unset == [k |-> "unset", s |-> <<>>, items |-> <<>>]

----------------------------------------------------------------------------
(* SExpressionParser *)

\* Longest input text of the parser
MaxLen == 4

\* The alphabet the input texts are drawn from
TextChars == {"(", ")", "\"", "\\", " ", "a"}

Texts == UNION {[1..n -> TextChars] : n \in 0..MaxLen}

\* skip_whitespace: the position after the run of white space at p
RECURSIVE skip_whitespace(_, _)
skip_whitespace(t, p) ==
  IF p < Len(t) /\ IsSpace(t[p + 1]) THEN skip_whitespace(t, p + 1) ELSE p

\* An escape branch that keeps the backslash together with the character
EscapeKeepsBoth(t, p) == <<t[p + 1], t[p + 2]>>

\* What the escape branch of parse_string appends for a backslash at p that
\* is followed by another character: the following character alone.
EscapeAppend(t, p) == <<t[p + 2]>>

\* The while loop of parse_string from position p with `acc` collected:
\* err is the ValueError("Unterminated string").
RECURSIVE StringLoop(_, _, _)
StringLoop(t, p, acc) ==
  IF p >= Len(t) THEN [err |-> TRUE, pos |-> p, s |-> acc]
  ELSE IF t[p + 1] = "\"" THEN [err |-> FALSE, pos |-> p + 1, s |-> acc]
  ELSE IF t[p + 1] = "\\" /\ p + 1 < Len(t)
       THEN StringLoop(t, p + 2, acc \o EscapeAppend(t, p))
  ELSE StringLoop(t, p + 1, Append(acc, t[p + 1]))

\* parse_string called with the cursor on the opening quote
parse_string(t, p) == StringLoop(t, p + 1, <<>>)

\* A parse_atom that returns the empty atom and leaves the cursor
parse_atom_in_place(t, p) == [pos |-> p, s |-> <<>>]

\* parse_atom: runs until white space or a list delimiter
RECURSIVE AtomEnd(_, _)
AtomEnd(t, p) ==
  IF p < Len(t) /\ ~IsSpace(t[p + 1]) /\ t[p + 1] \notin {"(", ")"}
  THEN AtomEnd(t, p + 1) ELSE p
parse_atom(t, p) == [pos |-> AtomEnd(t, p), s |-> SubSeq(t, p + 1, AtomEnd(t, p))]

\* A call of parse() returns v with the cursor at p: to the caller of the
\* parser at top level, into the list under construction otherwise.
Return(v, p, stk) ==
  /\ pos' = p
  /\ IF stk = <<>>
     THEN /\ result' = v
          /\ stack' = stk
          /\ pc' = "done"
     ELSE /\ stack' = [stk EXCEPT ![Len(stk)] = Append(@, v)]
          /\ pc' = "list"
          /\ UNCHANGED result

\* A ValueError propagates out of every pending call of parse()
Raise(p) ==
  /\ pos' = p
  /\ stack' = <<>>
  /\ pc' = "error"
  /\ UNCHANGED result

\* parse(): lines 86-91 and 108-114, one call
ParseCall ==
  /\ pc = "call"
  /\ LET p == skip_whitespace(text, pos) IN
       \/ /\ p >= Len(text)
          /\ Return(None, p, stack)
       \/ /\ p < Len(text)
          /\ text[p + 1] = "("
          /\ pos' = p + 1
          /\ stack' = Append(stack, <<>>)
          /\ pc' = "list"
          /\ UNCHANGED result
       \/ /\ p < Len(text)
          /\ text[p + 1] = "\""
          /\ LET r == parse_string(text, p) IN
               IF r.err THEN Raise(r.pos) ELSE Return(Str(r.s), r.pos, stack)
       \/ /\ p < Len(text)
          /\ text[p + 1] \notin {"(", "\""}
          /\ LET r == parse_atom(text, p) IN Return(Str(r.s), r.pos, stack)
  /\ UNCHANGED <<text, tree, resolveVars, dumpVars, escapeVars, toolVars>>

\* parse(): one iteration of the list loop, lines 96-106
ParseList ==
  /\ pc = "list"
  /\ LET p == skip_whitespace(text, pos) IN
       \/ /\ p >= Len(text)
          /\ Raise(p)
       \/ /\ p < Len(text)
          /\ text[p + 1] = ")"
          /\ Return(List(stack[Len(stack)]), p + 1, SubSeq(stack, 1, Len(stack) - 1))
       \/ /\ p < Len(text)
          /\ text[p + 1] # ")"
          /\ pos' = p
          /\ pc' = "call"
          /\ UNCHANGED <<stack, result>>
  /\ UNCHANGED <<text, tree, resolveVars, dumpVars, escapeVars, toolVars>>

\* SExpressionParser(text): __init__, lines 40-43
ParserInit ==
  /\ text \in Texts
  /\ pos = 0
  /\ stack = <<>>
  /\ result = Unset
  /\ pc = "call"
  /\ tree = Unset

ParserIdle ==
  /\ text = <<>>
  /\ pos = 0
  /\ stack = <<>>
  /\ result = Unset
  /\ pc = "idle"
  /\ tree = Unset

----------------------------------------------------------------------------
(* kicad_sym_to_db: field normalisation and value resolution *)

\* A dict is the sequence of its items in insertion order.
Item(k, v) == [key |-> k, val |-> v]
Keys(d) == {d[i].key : i \in 1..Len(d)}
Has(d, k) == \E i \in 1..Len(d) : d[i].key = k
Lookup(d, k) == d[CHOOSE i \in 1..Len(d) : d[i].key = k].val
\* dict.get(k) and dict.get(k, default)
GetOr(d, k, default) == IF Has(d, k) THEN Lookup(d, k) ELSE default
Get(d, k) == GetOr(d, k, None)
\* d[k] = v
Put(d, k, v) ==
  IF Has(d, k)
  THEN [i \in 1..Len(d) |-> IF d[i].key = k THEN Item(k, v) ELSE d[i]]
  ELSE Append(d, Item(k, v))

\* The ascending sequence of a finite set of numbers
RECURSIVE Ascending(_)
Ascending(S) ==
  IF S = {} THEN <<>>
  ELSE LET m == CHOOSE x \in S : \A y \in S : x <= y
       IN <<m>> \o Ascending(S \ {m})

\* sorted() of a set of strings
RECURSIVE SortedStrs(_)
SortedStrs(S) ==
  IF S = {} THEN <<>>
  ELSE LET m == CHOOSE x \in S : \A y \in S \ {x} : StrLess(x, y)
       IN <<m>> \o SortedStrs(S \ {m})

N_Symbol_Name == <<"S", "y", "m", "b", "o", "l", "_", "N", "a", "m", "e">>
N_Symbol == <<"S", "y", "m", "b", "o", "l">>
N_Footprint == <<"F", "o", "o", "t", "p", "r", "i", "n", "t">>
N_Sim_Device == <<"S", "i", "m", ".", "D", "e", "v", "i", "c", "e">>
N_Sim_Pins == <<"S", "i", "m", ".", "P", "i", "n", "s">>
N_Sim_Type == <<"S", "i", "m", ".", "T", "y", "p", "e">>
N_Sim_Library == <<"S", "i", "m", ".", "L", "i", "b", "r", "a", "r", "y">>
N_Reference == <<"R", "e", "f", "e", "r", "e", "n", "c", "e">>
N_Value == <<"V", "a", "l", "u", "e">>
\* the built-in model's pin assignment, '1=+ 2=-'
BuiltinPins == <<"1", "=", "+", " ", "2", "=", "-">>

\* collect_all_fields
collect_all_fields(syms) ==
  UNION {Keys(syms[i]) : i \in 1..Len(syms)}
    \cup {N_Symbol, N_Footprint, N_Sim_Device, N_Sim_Pins, N_Sim_Type, N_Sim_Library}

\* str.strip('_')
RECURSIVE LStrip(_)
LStrip(s) == IF s # <<>> /\ s[1] = "_" THEN LStrip(Tail(s)) ELSE s
RECURSIVE RStrip(_)
RStrip(s) ==
  IF s # <<>> /\ s[Len(s)] = "_" THEN RStrip(SubSeq(s, 1, Len(s) - 1)) ELSE s
Strip(s) == RStrip(LStrip(s))

\* re.sub(r'[^\w]+', '_', s): every run of non-word characters becomes one '_'
RECURSIVE SkipNonWord(_)
SkipNonWord(s) == IF s # <<>> /\ ~IsWord(s[1]) THEN SkipNonWord(Tail(s)) ELSE s
\* A substitution that turns every character outside \w into a '_' of its own
SubEachNonWord(s) == [i \in 1..Len(s) |-> IF IsWord(s[i]) THEN s[i] ELSE "_"]
RECURSIVE SubNonWord(_)
SubNonWord(s) ==
  IF s = <<>> THEN <<>>
  ELSE IF IsWord(s[1]) THEN <<s[1]>> \o SubNonWord(Tail(s))
  ELSE <<"_">> \o SubNonWord(SkipNonWord(s))

\* re.sub(r'[^\w]+', '_', s).strip('_')
Sanitize(s) == Strip(SubNonWord(s))

\* The regular expressions of the modelled configurations are made of
\* literal characters, '.', a trailing '*' on a character or '.', a leading
\* '^' and a trailing '$'; a pattern holding '(' is an unclosed group and a
\* pattern starting with '*' repeats nothing: re.compile rejects both with
\* re.error.
RegexValid(p) ==
  /\ \A i \in 1..Len(p) : p[i] # "("
  /\ p # <<>> => p[1] # "*"
  /\ Len(p) >= 2 => ~(p[1] = "^" /\ p[2] = "*")
IsPrefix(p, s) == Len(p) <= Len(s) /\ SubSeq(s, 1, Len(p)) = p
\* Whether pattern p from its element i on matches s at position j
RECURSIVE MatchHere(_, _, _, _)
MatchHere(p, i, s, j) ==
  IF i > Len(p) THEN TRUE
  ELSE IF i < Len(p) /\ p[i + 1] = "*"
       THEN \E n \in 0..(Len(s) + 1 - j) :
              /\ \A m \in j..(j + n - 1) : p[i] = "." \/ p[i] = s[m]
              /\ MatchHere(p, i + 2, s, j + n)
  ELSE IF p[i] = "$" /\ i = Len(p) THEN j > Len(s)
  ELSE /\ j <= Len(s)
       /\ (p[i] = "." \/ p[i] = s[j])
       /\ MatchHere(p, i + 1, s, j + 1)
\* regex.match(s): a match at the start of s
RegexMatch(p, s) ==
  IF p # <<>> /\ p[1] = "^" THEN MatchHere(p, 2, s, 1) ELSE MatchHere(p, 1, s, 1)
\* regex.search(s): a match anywhere in s
RegexSearch(p, s) ==
  IF p # <<>> /\ p[1] = "^"
  THEN MatchHere(p, 2, s, 1)
  ELSE \E j \in 1..(Len(s) + 1) : MatchHere(p, 1, s, j)

\* The pattern loop of create_field_mapping from pattern i on: the
\* replacement of the first valid pattern that matches, None when there is none.
RECURSIVE PatternMapping(_, _, _)
PatternMapping(field, patterns, i) ==
  IF i > Len(patterns) THEN None
  ELSE LET pattern == patterns[i].pattern
           replacement == patterns[i].replacement
       IN IF pattern # <<>> /\ replacement # <<>> /\ RegexValid(pattern)
             /\ RegexSearch(pattern, field)
          THEN Str(replacement)
          ELSE PatternMapping(field, patterns, i + 1)

\* A field list that is sorted and nothing else
FieldListSorted(flds) == SortedStrs(flds)
\* A field list in the order the names are met in the records
RECURSIVE KeysInOrder(_, _)
KeysInOrder(syms, i) ==
  IF i > Len(syms) THEN <<>>
  ELSE [n \in 1..Len(syms[i]) |-> syms[i][n].key] \o KeysInOrder(syms, i + 1)
FieldListAsEncountered(flds) ==
  LET all == KeysInOrder(symbols, 1)
      idx == Ascending({n \in 1..Len(all) :
                          all[n] \in flds /\ \A m \in 1..(n - 1) : all[m] # all[n]})
  IN [n \in 1..Len(idx) |-> all[idx[n]]]
       \o SortedStrs(flds \ {all[n] : n \in 1..Len(all)})
\* field_list of create_field_mapping: sorted, Symbol_Name first
FieldList(flds) ==
  LET sorted == SortedStrs(flds)
      IsOther(f) == f # N_Symbol_Name
  IN IF N_Symbol_Name \in flds
     THEN <<N_Symbol_Name>> \o SelectSeq(sorted, IsOther)
     ELSE sorted

\* A rename that consults the patterns before the exact names
NormalizedFieldPatternsFirst(field, mappings, patterns) ==
  LET found == IF PatternMapping(field, patterns, 1) # None
               THEN PatternMapping(field, patterns, 1)
               ELSE IF Has(mappings, field) THEN Str(Lookup(mappings, field))
               ELSE None
  IN IF found = None THEN field ELSE found.s
\* normalized_field of create_field_mapping
NormalizedField(field, mappings, patterns) ==
  LET found == IF Has(mappings, field) THEN Str(Lookup(mappings, field))
               ELSE PatternMapping(field, patterns, 1)
  IN IF found = None THEN field ELSE found.s

\* create_field_mapping: the dict raw name -> column name, in field_list order
create_field_mapping(flds, mappings, patterns) ==
  LET field_list == FieldList(flds)
  IN [i \in 1..Len(field_list) |->
        Item(field_list[i], Sanitize(NormalizedField(field_list[i], mappings, patterns)))]

\* A column list that tells columns apart by their exact spelling
get_unique_columns_exact(fm) ==
  LET first == {i \in 1..Len(fm) : \A j \in 1..(i - 1) : fm[j].val # fm[i].val}
      idx == Ascending(first)
  IN [n \in 1..Len(idx) |-> fm[idx[n]].val]
\* get_unique_columns
get_unique_columns(fm) ==
  LET first == {i \in 1..Len(fm) :
                  \A j \in 1..(i - 1) : LowerStr(fm[j].val) # LowerStr(fm[i].val)}
      idx == Ascending(first)
  IN [n \in 1..Len(idx) |-> fm[idx[n]].val]

\* str.startswith on a value; bool(value) of a str
StartsWith(v, c) == v.k = "str" /\ v.s # <<>> /\ v.s[1] = c
Truthy(v) == v.k = "str" /\ v.s # <<>>

\* The passive classes of populate_spice_fields, in the order of its elif chain
PassiveClasses == <<"R", "L", "C">>

\* The assignment symbol[k] = v of a built-in model field
SetSpice(sym, k, v) == Put(sym, k, v)

\* populate_spice_fields
populate_spice_fields(sym) ==
  LET reference == GetOr(sym, N_Reference, Str(<<>>))
      value == GetOr(sym, N_Value, Str(<<>>))
      Default(d, k) == IF Has(d, k) THEN d ELSE Put(d, k, None)
      init == Default(Default(Default(Default(sym, N_Sim_Device), N_Sim_Pins),
                              N_Sim_Type), N_Sim_Library)
      Builtin(d, c) == SetSpice(SetSpice(SetSpice(SetSpice(d, N_Sim_Device, Str(<<c>>)),
                                         N_Sim_Pins, Str(BuiltinPins)),
                                N_Sim_Type, Str(<<>>)),
                       N_Sim_Library, Str(<<>>))
      matching == {n \in 1..Len(PassiveClasses) :
                     StartsWith(reference, PassiveClasses[n]) /\ Truthy(value)}
  IN IF matching = {} THEN init
     ELSE Builtin(init, PassiveClasses[CHOOSE n \in matching : \A m \in matching : n <= m])

\* A candidate counts as holding a value only when the value is non-empty
IsValueNonEmpty(v) == v # None /\ v # Str(<<>>)

\* The test `field_value is not None` of prepare_symbol_values
IsValue(v) == v # None

\* sorted_fields of prepare_symbol_values: a stable sort that puts first the
\* raw names whose own sanitized name is the column
SortedFields(original_fields, column_lower) ==
  LET Own(f) == LowerStr(Sanitize(f)) = column_lower
      Renamed(f) == ~Own(f)
  IN SelectSeq(original_fields, Own) \o SelectSeq(original_fields, Renamed)

\* The first value that IsValue among the fields, None when there is none
RECURSIVE FirstValue(_, _)
FirstValue(sym, flds) ==
  IF flds = <<>> THEN None
  ELSE IF IsValue(Get(sym, flds[1])) THEN Get(sym, flds[1])
  ELSE FirstValue(sym, Tail(flds))

\* prepare_symbol_values on a symbol that populate_spice_fields has filled:
\* the dict column -> value, in the order of the columns' first appearance
prepare_symbol_values(sym, fm) ==
  LET columns == get_unique_columns(fm)
      original_fields(column_lower) ==
        LET idx == Ascending({i \in 1..Len(fm) : LowerStr(fm[i].val) = column_lower})
        IN [n \in 1..Len(idx) |-> fm[idx[n]].key]
  IN [c \in 1..Len(columns) |->
        Item(columns[c],
             FirstValue(sym, SortedFields(original_fields(LowerStr(columns[c])),
                                          LowerStr(columns[c]))))]

\* The test of apply_column_edits for a name that is a regular expression:
\* it starts with '^', ends with '$' or holds one of . * + ? [ ] { } ( ) \ |
RegexChars == {".", "*", "+", "?", "[", "]", "{", "}", "(", ")", "\\", "|"}
LooksLikeRegex(col_pattern) ==
  \/ col_pattern # <<>> /\ col_pattern[1] = "^"
  \/ col_pattern # <<>> /\ col_pattern[Len(col_pattern)] = "$"
  \/ \E i \in 1..Len(col_pattern) : col_pattern[i] \in RegexChars

A_add == <<"a", "d", "d">>
A_remove == <<"r", "e", "m", "o", "v", "e">>

\* One round of the loop of apply_column_edits
ApplyEdit(flds, col_pattern, action) ==
  IF action = A_add
  THEN IF LooksLikeRegex(col_pattern) THEN flds ELSE flds \cup {col_pattern}
  ELSE IF action = A_remove
  THEN IF LooksLikeRegex(col_pattern)
       THEN IF RegexValid(col_pattern)
            THEN flds \ {f \in flds : RegexMatch(col_pattern, f)}
            ELSE flds
       ELSE flds \ {col_pattern}
  ELSE flds

\* A loop that an invalid regular expression ends: the rules after it are
\* not applied
RECURSIVE ApplyEditsUntilInvalid(_, _, _)
ApplyEditsUntilInvalid(flds, rules, i) ==
  IF i > Len(rules) THEN flds
  ELSE IF LooksLikeRegex(rules[i].key) /\ ~RegexValid(rules[i].key) THEN flds
  ELSE ApplyEditsUntilInvalid(ApplyEdit(flds, rules[i].key, rules[i].val), rules, i + 1)
\* apply_column_edits from rule i on, the rules in the order of the dict
RECURSIVE ApplyEditsFrom(_, _, _)
ApplyEditsFrom(flds, rules, i) ==
  IF i > Len(rules) THEN flds
  ELSE ApplyEditsFrom(ApplyEdit(flds, rules[i].key, rules[i].val), rules, i + 1)
apply_column_edits(flds, rules) == ApplyEditsFrom(flds, rules, 1)

\* main: fields = collect_all_fields(symbols), reached when symbols is not
\* empty
CollectAllFields ==
  /\ rpc = "extracted"
  /\ symbols # <<>>
  /\ fields' = collect_all_fields(symbols)
  /\ rpc' = "collected"
  /\ UNCHANGED <<symbols, name_mappings, mapping_patterns, field_mapping,
                 column_values, library_name, column_edits, unique_columns>>
  /\ UNCHANGED <<parserVars, dumpVars, escapeVars, toolVars>>

\* main: if column_edits: fields = apply_column_edits(fields, column_edits)
ApplyColumnEdits ==
  /\ rpc = "collected"
  /\ column_edits # <<>>
  /\ fields' = apply_column_edits(fields, column_edits)
  /\ rpc' = "edited"
  /\ UNCHANGED <<symbols, name_mappings, mapping_patterns, field_mapping,
                 column_values, library_name, column_edits, unique_columns>>
  /\ UNCHANGED <<parserVars, dumpVars, escapeVars, toolVars>>

\* main: field_mapping = create_field_mapping(fields, name_mappings,
\* mapping_patterns), after the column edits when there are any
CreateFieldMapping ==
  /\ rpc = "edited" \/ (rpc = "collected" /\ column_edits = <<>>)
  /\ field_mapping' = create_field_mapping(fields, name_mappings, mapping_patterns)
  /\ rpc' = "mapped"
  /\ UNCHANGED <<symbols, name_mappings, mapping_patterns, fields,
                 column_values, library_name, column_edits, unique_columns>>
  /\ UNCHANGED <<parserVars, dumpVars, escapeVars, toolVars>>

\* generate_create_table_sql: the columns of the table are
\* get_unique_columns(field_mapping)
GenerateCreateTableSql ==
  /\ rpc = "mapped"
  /\ unique_columns' = get_unique_columns(field_mapping)
  /\ rpc' = "created"
  /\ UNCHANGED <<symbols, name_mappings, mapping_patterns, fields, field_mapping,
                 column_values, library_name, column_edits>>
  /\ UNCHANGED <<parserVars, dumpVars, escapeVars, toolVars>>

\* generate_insert_sql: prepare_symbol_values on every symbol; each symbol
\* dict is updated in place by populate_spice_fields
GenerateInsertSql ==
  /\ rpc = "created"
  /\ symbols' = [i \in 1..Len(symbols) |-> populate_spice_fields(symbols[i])]
  /\ column_values' = [i \in 1..Len(symbols) |->
                         prepare_symbol_values(populate_spice_fields(symbols[i]),
                                               field_mapping)]
  /\ rpc' = "generated"
  /\ UNCHANGED <<name_mappings, mapping_patterns, fields, field_mapping,
                 library_name, column_edits, unique_columns>>
  /\ UNCHANGED <<parserVars, dumpVars, escapeVars, toolVars>>


\* Raw property names of the input libraries
N_Symbol_Sp == <<"S", "y", "m", "b", "o", "l", " ", "N", "a", "m", "e">>
N_Sim_Sp == <<"S", "i", "m", " ", "D", "e", "v", "i", "c", "e">>
N_I_Sp == <<"I", " ", "r">>
N_I_r == <<"I", "_", "r">>
N_Imax == <<"I", "m", "a", "x">>

\* A property the definition does not carry
Absent == [k |-> "absent", s |-> <<>>, items |-> <<>>]

\* The record extract_symbols_from_sexp builds for the definition "s" of
\* library "l": Symbol_Name, Symbol, then the properties present, in
\* document order
RECURSIVE Properties(_, _)
Properties(names, vals) ==
  IF names = <<>> THEN <<>>
  ELSE (IF vals[1] = Absent THEN <<>> ELSE <<Item(names[1], vals[1])>>)
         \o Properties(Tail(names), Tail(vals))
Extracted(names, vals) ==
  <<Item(N_Symbol_Name, Str(<<"s">>)), Item(N_Symbol, Str(<<"l", ":", "s">>))>>
    \o Properties(names, vals)

\* Symbols with several raw fields that merge into the column I_r
MergeNames == <<N_Symbol_Sp, N_I_Sp, N_I_r, N_Imax>>
MergeValue == {Absent, Str(<<>>), Str(<<"x">>), Str(<<"y">>)}
MergeSymbols ==
  {Extracted(MergeNames, v) : v \in {Absent, Str(<<"x">>)} \X MergeValue \X MergeValue \X MergeValue}
\* A further symbol of the library, which widens the collected field set
OtherSymbols ==
  {Extracted(MergeNames, v) :
     v \in {<<Absent, Str(<<"z">>), Absent, Absent>>,
            <<Absent, Absent, Str(<<"z">>), Absent>>,
            <<Absent, Absent, Absent, Str(<<"z">>)>>,
            <<Absent, Str(<<"z">>), Absent, Str(<<"z">>)>>}}

\* Symbols with a reference designator, a value and simulation fields
SpiceNames == <<N_Sim_Device, N_Sim_Sp, N_Reference, N_Value, N_Sim_Pins, N_Sim_Type,
                N_Sim_Library>>
SpiceSymbols ==
  {Extracted(SpiceNames, v) :
     v \in {Absent, Str(<<>>), Str(<<"X">>)} \X {Absent, Str(<<"Y">>)}
           \X {Absent, Str(<<>>), Str(<<"R">>), Str(<<"L">>), Str(<<"C", "1">>), Str(<<"U">>)}
           \X {Absent, Str(<<>>), Str(<<"1", "0", "k">>)}
           \X {Absent, Str(<<"X">>)} \X {Absent, Str(<<"X">>)} \X {Absent, Str(<<"X">>)}}

\* The configurations: none; an exact field_mappings entry; a pattern list
\* whose first entry does not compile
Pattern(p, r) == [pattern |-> p, replacement |-> r]
Configs ==
  { [mappings |-> <<>>, patterns |-> <<>>],
    [mappings |-> <<Item(N_Imax, N_I_r)>>, patterns |-> <<>>],
    [mappings |-> <<>>,
     patterns |-> <<Pattern(<<"(", "m">>, <<"X">>), Pattern(<<"m", "a", "x">>, N_I_Sp)>>] }

\* main after extract_symbols_from_sexp and load_config, lines 671-690
ResolveInit ==
  /\ symbols \in {<<s>> : s \in MergeSymbols \cup SpiceSymbols}
                   \cup {<<s, o>> : s \in MergeSymbols, o \in OtherSymbols}
  /\ \E c \in Configs : name_mappings = c.mappings /\ mapping_patterns = c.patterns
  /\ fields = {}
  /\ field_mapping = <<>>
  /\ column_values = <<>>
  /\ rpc = "extracted"
  /\ library_name = Str(<<"l">>)
  /\ column_edits = <<>>
  /\ unique_columns = <<>>

ResolveIdle ==
  /\ symbols = <<>>
  /\ name_mappings = <<>>
  /\ mapping_patterns = <<>>
  /\ fields = {}
  /\ field_mapping = <<>>
  /\ column_values = <<>>
  /\ rpc = "idle"
  /\ library_name = None
  /\ column_edits = <<>>
  /\ unique_columns = <<>>

----------------------------------------------------------------------------
(* db_to_tables: the partitioned dumper *)

\* An int cell value
IntVal(n) == [k |-> "int", n |-> n]

\* str(n) of a non-negative int
DigitChar(d) == AsciiOrder[Ord("0") + d]
RECURSIVE IntToStr(_)
IntToStr(n) == IF n < 10 THEN <<DigitChar(n)>> ELSE IntToStr(n \div 10) \o <<DigitChar(n % 10)>>

\* str.replace("'", "''")
RECURSIVE DoubleQuotes(_)
DoubleQuotes(s) ==
  IF s = <<>> THEN <<>>
  ELSE (IF s[1] = "'" THEN <<"'", "'">> ELSE <<s[1]>>) \o DoubleQuotes(Tail(s))

SqlNull == <<"N", "U", "L", "L">>
\* the exception a str method raises on an int
AttributeError == <<"A", "t", "t", "r", "i", "b", "u", "t", "e", "E", "r", "r", "o", "r">>
Raised(e) == [k |-> "raise", s |-> e, items |-> <<>>]

\* sql_escape of db_to_tables.py
sql_escape(value) ==
  IF value = None \/ value = Str(<<>>) THEN Str(SqlNull)
  ELSE IF value.k = "int" THEN Str(IntToStr(value.n))
  ELSE Str(<<"'">> \o DoubleQuotes(value.s) \o <<"'">>)

\* sql_escape of db_to_sql.py: value.replace is called on every value that
\* is not None or ''
sql_escape_db_to_sql(value) ==
  IF value = None \/ value = Str(<<>>) THEN Str(SqlNull)
  ELSE IF value.k = "int" THEN Raised(AttributeError)
  ELSE Str(<<"'">> \o DoubleQuotes(value.s) \o <<"'">>)

\* Most rows of the table, most dump runs into the directory, most row edits
\* between two runs
MaxRows == 2
MaxRuns == 2
MaxEdits == 1

TableName == <<"t">>
S_static == <<"s", "t", "a", "t", "i", "c">>
S_data == <<"d", "a", "t", "a">>
S_schema == <<"s", "c", "h", "e", "m", "a">>
S_sql == <<".", "s", "q", "l">>

\* The tables: columns key and val, then any of dump_priority and source;
\* pk[c] is the pk field of PRAGMA table_info for column c
Schemas ==
  {[columns |-> <<"key", "val">> \o dp \o src, pk |-> pk] :
     dp \in {<<>>, <<"dump_priority">>}, src \in {<<>>, <<"source">>},
     pk \in {[c \in {"key", "val", "dump_priority", "source"} |-> 0],
             [c \in {"key", "val", "dump_priority", "source"} |-> IF c = "key" THEN 1 ELSE 0]}}

HasColumn(sch, c) == \E i \in 1..Len(sch.columns) : sch.columns[i] = c

\* The rows a table of the schema can hold: a column the table lacks is None
RowsOf(sch) ==
  [key : {IntVal(1), IntVal(2)},
   val : {Str(<<"a">>), Str(<<"b">>)},
   dump_priority : IF HasColumn(sch, "dump_priority") THEN {IntVal(0), IntVal(3), IntVal(12)} ELSE {None},
   source : IF HasColumn(sch, "source")
            THEN {None, Str(<<>>), Str(S_static), Str(S_data)} ELSE {None}]

\* The primary key constraint
Unique(sch, rs) ==
  \A c \in {"key", "val", "dump_priority", "source"} :
     sch.pk[c] > 0 => \A r1, r2 \in rs : r1[c] = r2[c] => r1 = r2

NoPrimaryKey == "None"

\* get_primary_key: the first column of table_info whose pk is non-zero
get_primary_key(sch) ==
  LET pks == {i \in 1..Len(sch.columns) : sch.pk[sch.columns[i]] > 0}
  IN IF pks = {} THEN NoPrimaryKey
     ELSE sch.columns[CHOOSE i \in pks : \A j \in pks : i <= j]

\* sort_column of dump_table_to_file, lines 240-245
SortColumn(sch) ==
  IF get_primary_key(sch) # NoPrimaryKey THEN get_primary_key(sch) ELSE sch.columns[1]

\* SQLite's order of two cell values: NULL first, then numbers, then text
SqlLess(a, b) ==
  IF a = None THEN b # None
  ELSE IF b = None THEN FALSE
  ELSE IF a.k = "int" THEN b.k # "int" \/ a.n < b.n
  ELSE b.k = "str" /\ StrLess(a.s, b.s)

\* The results of SELECT ... ORDER BY column over the rows: every order of
\* the rows that ascends in the column; rows equal in it come in any order
OrderBy(rs, column) ==
  {o \in [1..Cardinality(rs) -> rs] :
     /\ \A i, j \in 1..Cardinality(rs) : i # j => o[i] # o[j]
     /\ \A i, j \in 1..Cardinality(rs) : i < j => ~SqlLess(o[j][column], o[i][column])}

\* The (dump_priority, source) pair of a row, as the group [p, s]
Group(p, s) == [dump_priority |-> p, source |-> s]
GroupLess(g, h) ==
  \/ g.dump_priority < h.dump_priority
  \/ g.dump_priority = h.dump_priority /\ StrLess(g.source, h.source)
RECURSIVE SortedGroups(_)
SortedGroups(G) ==
  IF G = {} THEN <<>>
  ELSE LET m == CHOOSE g \in G : \A h \in G \ {g} : GroupLess(g, h)
       IN <<m>> \o SortedGroups(G \ {m})

Max(S) == CHOOSE x \in S : \A y \in S : y <= x

\* get_table_dump_info
get_table_dump_info(sch, rs) ==
  LET fallback == [dump_info |-> <<Group(1, S_static)>>, max_priority |-> 1]
      results ==
        {Group(r.dump_priority.n, r.source.s) :
           r \in {q \in rs : /\ q.dump_priority # None
                             /\ q.dump_priority.n > 0
                             /\ q.source # None
                             /\ q.source # Str(<<>>)}}
  IN IF ~HasColumn(sch, "dump_priority") \/ ~HasColumn(sch, "source") THEN fallback
     ELSE IF results = {} THEN fallback
     ELSE [dump_info |-> SortedGroups(results),
           max_priority |-> Max({g.dump_priority : g \in results})]

\* The INSERT statement of a row: the table, the columns and the escaped values
InsertSql(sch, r) ==
  [table |-> TableName, columns |-> sch.columns,
   values |-> [i \in 1..Len(sch.columns) |-> sql_escape(r[sch.columns[i]]).s]]

\* dump_table_data_by_priority_source; `ordered` is the table in the order
\* the store returns it for ORDER BY sort_column
dump_table_data_by_priority_source(sch, ordered, dump_priority, source) ==
  LET Selected(r) ==
        IF HasColumn(sch, "dump_priority") /\ HasColumn(sch, "source")
        THEN r.dump_priority = IntVal(dump_priority) /\ r.source = Str(source)
        ELSE IF HasColumn(sch, "source") THEN r.source = Str(source)
        ELSE TRUE
      selected == SelectSeq(ordered, Selected)
  IN [i \in 1..Len(selected) |-> InsertSql(sch, selected[i])]

\* A padding width that ignores the priorities
PaddingWidthOne(max_priority) == 1

\* padding_width = len(str(max_priority))
PaddingWidth(max_priority) == Len(IntToStr(max_priority))

\* f"{n:0{width}d}"
RECURSIVE ZeroPad(_, _)
ZeroPad(s, width) == IF Len(s) >= width THEN s ELSE ZeroPad(<<"0">> \o s, width)
Zeros(width) == [i \in 1..width |-> "0"]

SchemaFileName(width) == TableName \o <<"_">> \o Zeros(width) \o <<"_">> \o S_schema \o S_sql
DataFileName(g, width) ==
  TableName \o <<"_">> \o ZeroPad(IntToStr(g.dump_priority), width) \o <<"_">>
    \o (IF g.source = S_static THEN S_data ELSE g.source) \o S_sql

\* open(name, 'w') and the writes: the file is created or replaced as a whole
WriteFile(dir, name, content) ==
  {f \in dir : f.name # name} \cup {[name |-> name, content |-> content]}

SchemaContent(sch) == [kind |-> "schema", create_table_sql |-> sch]

\* A line of a data file after its header
Line(kind, stmt) == [kind |-> kind, stmt |-> stmt]

\* A script that is never committed
DataScriptWithoutCommit(stmts) ==
  <<Line("BEGIN TRANSACTION;", <<>>)>> \o [i \in 1..Len(stmts) |-> Line("INSERT", stmts[i])]

\* The lines written after the header, lines 296-301: BEGIN TRANSACTION, the
\* INSERT statements, COMMIT
DataScript(stmts) ==
  <<Line("BEGIN TRANSACTION;", <<>>)>>
    \o [i \in 1..Len(stmts) |-> Line("INSERT", stmts[i])]
    \o <<Line("COMMIT;", <<>>)>>

\* The header of a data file, lines 285-294, and its script
DataContent(g, stmts, sort_column, width) ==
  [kind |-> "data", count |-> Len(stmts), dump_priority |-> g.dump_priority,
   source |-> g.source, sort_column |-> sort_column,
   schema_file |-> SchemaFileName(width), inserts |-> stmts,
   script |-> DataScript(stmts)]

\* The loop over dump_info of dump_table_to_file, lines 272-303, from group i
RECURSIVE WriteGroups(_, _, _, _, _, _)
WriteGroups(sch, ordered, dump_info, i, width, dir) ==
  IF i > Len(dump_info) THEN dir
  ELSE LET g == dump_info[i]
           stmts == dump_table_data_by_priority_source(sch, ordered, g.dump_priority, g.source)
       IN WriteGroups(sch, ordered, dump_info, i + 1, width,
            IF stmts = <<>> THEN dir
            ELSE WriteFile(dir, DataFileName(g, width),
                           DataContent(g, stmts, SortColumn(sch), width)))

\* dump_table_to_file: the table's directory after the run
dump_table_to_file(sch, ordered, dir) ==
  LET info == get_table_dump_info(sch, {ordered[i] : i \in 1..Len(ordered)})
      width == PaddingWidth(info.max_priority)
      with_schema == WriteFile(dir, SchemaFileName(width), SchemaContent(sch))
  IN IF Len(ordered) > 0
     THEN WriteGroups(sch, ordered, info.dump_info, 1, width, with_schema)
     ELSE with_schema

\* One run of dump_table_to_file over the table
DumpTableToFile ==
  /\ runs < MaxRuns
  /\ \E ordered \in OrderBy(rows, SortColumn(schema)) :
       files' = dump_table_to_file(schema, ordered, files)
  /\ runs' = runs + 1
  /\ edits' = 0
  /\ UNCHANGED <<schema, rows>>
  /\ UNCHANGED <<parserVars, resolveVars, escapeVars, toolVars>>

\* Between two runs the table's owner inserts a row
InsertRow ==
  /\ runs < MaxRuns
  /\ edits < MaxEdits
  /\ Cardinality(rows) < MaxRows
  /\ \E r \in RowsOf(schema) \ rows :
       /\ Unique(schema, rows \cup {r})
       /\ rows' = rows \cup {r}
  /\ edits' = edits + 1
  /\ UNCHANGED <<schema, files, runs>>
  /\ UNCHANGED <<parserVars, resolveVars, escapeVars, toolVars>>

\* Between two runs the table's owner changes the group of a row
UpdateRow ==
  /\ runs < MaxRuns
  /\ edits < MaxEdits
  /\ \E r \in rows, n \in RowsOf(schema) \ rows :
       /\ n.key = r.key /\ n.val = r.val
       /\ rows' = (rows \ {r}) \cup {n}
  /\ edits' = edits + 1
  /\ UNCHANGED <<schema, files, runs>>
  /\ UNCHANGED <<parserVars, resolveVars, escapeVars, toolVars>>

\* Between two runs the table's owner deletes a row
DeleteRow ==
  /\ runs < MaxRuns
  /\ edits < MaxEdits
  /\ \E r \in rows : rows' = rows \ {r}
  /\ edits' = edits + 1
  /\ UNCHANGED <<schema, files, runs>>
  /\ UNCHANGED <<parserVars, resolveVars, escapeVars, toolVars>>

\* The subsets of S with at most n elements
RECURSIVE SubsetsUpTo(_, _)
SubsetsUpTo(S, n) ==
  IF n = 0 THEN {{}}
  ELSE LET smaller == SubsetsUpTo(S, n - 1)
       IN smaller \cup {s \cup {x} : s \in smaller, x \in S}

\* A database with one table and an output directory without the table's
\* directory
DumpInit ==
  /\ schema \in Schemas
  /\ rows \in {rs \in SubsetsUpTo(RowsOf(schema), MaxRows) : Unique(schema, rs)}
  /\ files = {}
  /\ runs = 0
  /\ edits = 0

\* A database whose table is still empty
RerunInit ==
  /\ schema \in Schemas
  /\ rows = {}
  /\ files = {}
  /\ runs = 0
  /\ edits = 0

DumpIdle ==
  /\ schema = [columns |-> <<>>, pk |-> <<>>]
  /\ rows = {}
  /\ files = {}
  /\ runs = 0
  /\ edits = 0

----------------------------------------------------------------------------
(* sql_escape of the two dumpers on one cell value *)

\* Longest text of a cell
MaxCell == 3

CellChars == {"a", "'", "1"}
Cells ==
  {None, IntVal(0), IntVal(5), IntVal(12)}
    \cup {Str(s) : s \in UNION {[1..n -> CellChars] : n \in 0..MaxCell}}

EscapeTables ==
  /\ escaped.tables = Unset
  /\ escaped' = [escaped EXCEPT !.tables = sql_escape(cell)]
  /\ UNCHANGED cell
  /\ UNCHANGED <<parserVars, resolveVars, dumpVars, toolVars>>

EscapeSql ==
  /\ escaped.sql = Unset
  /\ escaped' = [escaped EXCEPT !.sql = sql_escape_db_to_sql(cell)]
  /\ UNCHANGED cell
  /\ UNCHANGED <<parserVars, resolveVars, dumpVars, toolVars>>

EscapeInit ==
  /\ cell \in Cells
  /\ escaped = [tables |-> Unset, sql |-> Unset]

EscapeIdle ==
  /\ cell = None
  /\ escaped = [tables |-> Unset, sql |-> Unset]

----------------------------------------------------------------------------
(* Specifications *)

\* The parser on every text
InitParse == ParserInit /\ ResolveIdle /\ DumpIdle /\ EscapeIdle /\ ToolsIdle
NextParse == ParseCall \/ ParseList
SpecParse == InitParse /\ [][NextParse]_vars

\* Field normalisation and value resolution on the extracted symbols
InitResolve == ParserIdle /\ ResolveInit /\ DumpIdle /\ EscapeIdle /\ ToolsIdle
NextResolve ==
  CollectAllFields \/ CreateFieldMapping \/ GenerateCreateTableSql \/ GenerateInsertSql
SpecResolve == InitResolve /\ [][NextResolve]_vars

\* Dump runs over a table that does not change
InitDump == ParserIdle /\ ResolveIdle /\ DumpInit /\ EscapeIdle /\ ToolsIdle
NextDump == DumpTableToFile
SpecDump == InitDump /\ [][NextDump]_vars

\* Dump runs into one directory with the table edited in between
InitRerun == ParserIdle /\ ResolveIdle /\ RerunInit /\ EscapeIdle /\ ToolsIdle
NextRerun == DumpTableToFile \/ InsertRow \/ UpdateRow \/ DeleteRow
SpecRerun == InitRerun /\ [][NextRerun]_vars

\* sql_escape on every cell value
InitEscape == ParserIdle /\ ResolveIdle /\ DumpIdle /\ EscapeInit /\ ToolsIdle
NextEscape == EscapeTables \/ EscapeSql
SpecEscape == InitEscape /\ [][NextEscape]_vars

----------------------------------------------------------------------------
(* Value resolution and SPICE auto-population *)

\* The raw names of the field mapping that map to column c, compared
\* case-insensitively
Candidates(c) ==
  {field_mapping[j].key : j \in {n \in 1..Len(field_mapping) :
                                   LowerStr(field_mapping[n].val) = LowerStr(c)}}
\* A raw name whose own sanitized name is the column
OwnName(n, c) == LowerStr(Sanitize(n)) = LowerStr(c)
\* Ascending raw-name order
RawNameBefore(m, n) == StrLess(m, n)
\* The order of the field mapping: Symbol_Name first, then ascending
MappingBefore(m, n) ==
  m # n /\ (m = N_Symbol_Name \/ (n # N_Symbol_Name /\ StrLess(m, n)))
\* m is tried before n for column c, ties decided by Before
TriedBefore(m, n, c, Before(_, _)) ==
  \/ OwnName(m, c) /\ ~OwnName(n, c)
  \/ OwnName(m, c) = OwnName(n, c) /\ Before(m, n)
\* v is the value of the first candidate of column c, in the order tried,
\* whose value in symbol sym Counts; None when no candidate's value Counts
FirstThatCounts(sym, c, v, Counts(_), Before(_, _)) ==
  LET counting == {n \in Candidates(c) : Counts(Get(sym, n))}
  IN IF counting = {} THEN v = None
     ELSE \E n \in counting :
            /\ v = Get(sym, n)
            /\ \A m \in counting : ~TriedBefore(m, n, c, Before)
NonEmpty(v) == v # None /\ v # Str(<<>>)
NotNone(v) == v # None
\* Every column of the mapping has exactly one resolved entry per symbol
EveryColumnResolved(i) ==
  /\ \A j \in 1..Len(field_mapping) :
       \E c \in 1..Len(column_values[i]) :
         LowerStr(column_values[i][c].key) = LowerStr(field_mapping[j].val)
  /\ \A c, d \in 1..Len(column_values[i]) :
       LowerStr(column_values[i][c].key) = LowerStr(column_values[i][d].key) => c = d

\* C1 as stated: every resolved column value is the first NON-EMPTY value
\* among the raw fields mapping to the column, own-named fields first and
\* ties in ascending raw-name order; None only when no candidate is non-empty.
C1_FirstNonEmptyValue ==
  rpc = "generated" =>
    \A i \in 1..Len(symbols) :
      /\ EveryColumnResolved(i)
      /\ \A c \in 1..Len(column_values[i]) :
           FirstThatCounts(symbols[i], column_values[i][c].key, column_values[i][c].val,
                           NonEmpty, RawNameBefore)

\* C1 amended: every resolved column value is the first value that is not
\* None (an empty string counts as a value) among the raw fields mapping to
\* the column, own-named fields (compared case-insensitively) first and ties
\* in field-mapping order (Symbol_Name first, then ascending raw names);
\* None only when every candidate is missing or None.
C1_FirstNotNoneValue ==
  rpc = "generated" =>
    \A i \in 1..Len(symbols) :
      /\ EveryColumnResolved(i)
      /\ \A c \in 1..Len(column_values[i]) :
           FirstThatCounts(symbols[i], column_values[i][c].key, column_values[i][c].val,
                           NotNone, MappingBefore)

\* C1 witness: the own-named field I_r is empty, the renamed field Imax holds
\* 'y', and the column I_r resolved to the empty string.
C1_EmptyPreferredWins ==
  /\ rpc = "generated"
  /\ \E i \in 1..Len(symbols) :
       /\ Get(symbols[i], N_I_r) = Str(<<>>)
       /\ Get(symbols[i], N_Imax) = Str(<<"y">>)
       /\ N_Imax \in Candidates(N_I_r)
       /\ Get(column_values[i], N_I_r) = Str(<<>>)

\* A record of a passive class: Reference starts with R, L or C and Value is
\* non-empty
PassiveLetter(sym) == Get(sym, N_Reference).s[1]
IsPassive(sym) ==
  /\ Get(sym, N_Reference).k = "str"
  /\ Get(sym, N_Reference).s # <<>>
  /\ PassiveLetter(sym) \in {"R", "L", "C"}
  /\ NonEmpty(Get(sym, N_Value))
\* The four simulation fields hold the fixed tuple of the record's class
HasBuiltinModel(sym) ==
  /\ Get(sym, N_Sim_Device) = Str(<<PassiveLetter(sym)>>)
  /\ Get(sym, N_Sim_Pins) = Str(<<"1", "=", "+", " ", "2", "=", "-">>)
  /\ Get(sym, N_Sim_Type) = Str(<<>>)
  /\ Get(sym, N_Sim_Library) = Str(<<>>)
Col_Sim_Device == <<"S", "i", "m", "_", "D", "e", "v", "i", "c", "e">>

\* C2: every passive record ends with the fixed tuple in its four
\* simulation fields, whatever they held, and its resolved Sim_Device column
\* is the class code.
C2_SpiceOverwriteResolved ==
  rpc = "generated" =>
    \A i \in 1..Len(symbols) :
      IsPassive(symbols[i]) =>
        /\ HasBuiltinModel(symbols[i])
        /\ Get(column_values[i], Col_Sim_Device) = Str(<<PassiveLetter(symbols[i])>>)

----------------------------------------------------------------------------
(* The partitioned dumper *)

DataFiles == {f \in files : f.content.kind = "data"}
SchemaFiles == {f \in files : f.content.kind = "schema"}
InsertsOf(f) == {f.content.inserts[i] : i \in 1..Len(f.content.inserts)}

\* A row the policy excludes: dump_priority 0, or source empty or NULL
ExcludedRow(r) ==
  \/ HasColumn(schema, "dump_priority") /\ r.dump_priority = IntVal(0)
  \/ HasColumn(schema, "source") /\ r.source \in {None, Str(<<>>)}

\* C3: after a dump run, no data artifact of the table holds the INSERT of a
\* row whose dump_priority is 0 or whose source is empty or NULL, whatever
\* subset of the two columns the table has.
C3_ExcludedRowsNotDumped ==
  runs >= 1 =>
    \A r \in rows :
      ExcludedRow(r) => \A f \in DataFiles : InsertSql(schema, r) \notin InsertsOf(f)

\* C4: right after a dump run the table's directory holds exactly what that
\* run alone writes into an empty directory, whatever earlier runs wrote.
C4_NoLeakFromEarlierRuns ==
  (runs >= 1 /\ edits = 0) =>
    \E ordered \in OrderBy(rows, SortColumn(schema)) :
      files = dump_table_to_file(schema, ordered, {})

\* The groups of the run that have rows
GroupsWithRows ==
  LET info == get_table_dump_info(schema, rows)
  IN {g \in {info.dump_info[i] : i \in 1..Len(info.dump_info)} :
        \E ordered \in OrderBy(rows, SortColumn(schema)) :
          dump_table_data_by_priority_source(schema, ordered, g.dump_priority, g.source) # <<>>}

\* C5: after a dump run every (dump_priority, source) group with rows has a
\* data artifact of its own: a file whose header names the group.
C5_OneArtifactPerGroup ==
  runs >= 1 =>
    \A g \in GroupsWithRows :
      \E f \in DataFiles :
        f.content.dump_priority = g.dump_priority /\ f.content.source = g.source

\* The number of decimal digits of n >= 1, and the number a digit string denotes
NumDigits(n) == CHOOSE d \in 1..6 : 10^(d - 1) <= n /\ n < 10^d
RECURSIVE DecimalValue(_)
DecimalValue(s) ==
  IF s = <<>> THEN 0
  ELSE 10 * DecimalValue(SubSeq(s, 1, Len(s) - 1)) + (Ord(s[Len(s)]) - Ord("0"))
\* The width the artifacts of the directory are padded to: the digits of the
\* largest priority of a data artifact, one when there is no data artifact
ArtifactWidth ==
  IF DataFiles = {} THEN 1
  ELSE NumDigits(Max({f.content.dump_priority : f \in DataFiles}))
\* The priority field of a data artifact's name
PriorityField(f) == SubSeq(f.name, Len(TableName) + 2, Len(TableName) + 1 + ArtifactWidth)

\* C6: after a dump run, every data artifact's name carries its priority
\* zero-padded to the digit count of the largest priority among the data
\* artifacts, the one schema artifact carries that many zeros, and in
\* lexicographic order of the names the schema artifact comes before every
\* data artifact and a data artifact of lower priority before one of higher.
C6_ArtifactNaming ==
  runs >= 1 =>
    /\ \E sf \in SchemaFiles :
         /\ SchemaFiles = {sf}
         /\ sf.name = TableName \o <<"_">> \o [i \in 1..ArtifactWidth |-> "0"]
                        \o <<"_", "s", "c", "h", "e", "m", "a", ".", "s", "q", "l">>
         /\ \A f \in DataFiles : StrLess(sf.name, f.name)
    /\ \A f \in DataFiles :
         /\ IsPrefix(TableName \o <<"_">>, f.name)
         /\ \A i \in 1..ArtifactWidth : PriorityField(f)[i] \in Digit
         /\ DecimalValue(PriorityField(f)) = f.content.dump_priority
         /\ f.name[Len(TableName) + 2 + ArtifactWidth] = "_"
    /\ \A f, g \in DataFiles :
         f.content.dump_priority < g.content.dump_priority => StrLess(f.name, g.name)

\* C6 witness: a run wrote data artifacts of priority 3 and of priority 12.
C6_TwoDigitPriority ==
  /\ runs >= 1
  /\ \E f, g \in DataFiles : f.content.dump_priority = 3 /\ g.content.dump_priority = 12

\* C7: a dump run over a table that has not changed since the previous run
\* leaves every artifact as the previous run wrote it.
C7_RerunIdentical ==
  [][(runs >= 1 /\ runs' = runs + 1 /\ rows' = rows) => files' = files]_vars

----------------------------------------------------------------------------
(* sql_escape *)

\* What the escaping contract asks for a cell value
ExpectedEscape(v) ==
  IF v = None \/ v = Str(<<>>) THEN Str(<<"N", "U", "L", "L">>)
  ELSE IF v.k = "int" THEN Str(IntToStr(v.n))
  ELSE Str(<<"'">> \o DoubleQuotes(v.s) \o <<"'">>)

\* C8: both dumpers serialize None and '' to NULL, a number to its digits
\* unquoted, and any other string in single quotes with quotes doubled.
C8_BothDumpersEscape ==
  /\ escaped.tables # Unset => escaped.tables = ExpectedEscape(cell)
  /\ escaped.sql # Unset => escaped.sql = ExpectedEscape(cell)

----------------------------------------------------------------------------
(* The parser *)

\* A text is well formed when every '(' is closed, every ')' closes a '(',
\* and every quoted string is terminated.  Scanning from character i at
\* nesting depth d; mode is "str" inside a quoted string, "atom" inside an
\* atom, "gap" otherwise.
RECURSIVE WellFormedFrom(_, _, _, _)
WellFormedFrom(t, i, d, mode) ==
  IF i > Len(t) THEN mode # "str" /\ d = 0
  ELSE IF mode = "str"
       THEN IF t[i] = "\\" THEN i + 1 <= Len(t) /\ WellFormedFrom(t, i + 2, d, "str")
            ELSE IF t[i] = "\"" THEN WellFormedFrom(t, i + 1, d, "gap")
            ELSE WellFormedFrom(t, i + 1, d, "str")
  ELSE IF t[i] = "(" THEN WellFormedFrom(t, i + 1, d + 1, "gap")
  ELSE IF t[i] = ")" THEN d > 0 /\ WellFormedFrom(t, i + 1, d - 1, "gap")
  ELSE IF t[i] = " " THEN WellFormedFrom(t, i + 1, d, "gap")
  ELSE IF t[i] = "\"" /\ mode = "gap" THEN WellFormedFrom(t, i + 1, d, "str")
  ELSE WellFormedFrom(t, i + 1, d, "atom")
WellFormed(t) == WellFormedFrom(t, 1, 0, "gap")

\* C9: parse returns a tree only for a well-formed text; a text with
\* unmatched parentheses or an unterminated quoted string ends in an error
\* with no tree returned.
C9_MalformedTextFails ==
  /\ pc = "done" => WellFormed(text)
  /\ pc = "error" => result = Unset

\* parse() returned the value of a quoted string that starts the text
TopLevelString ==
  /\ pc = "done"
  /\ skip_whitespace(text, 0) < Len(text)
  /\ text[skip_whitespace(text, 0) + 1] = "\""
\* The characters between the opening quote and the quote that ended it
StringBody == SubSeq(text, skip_whitespace(text, 0) + 2, pos - 1)
\* b with every backslash that is followed by a character removed
RECURSIVE WithoutEscapes(_)
WithoutEscapes(b) ==
  IF b = <<>> THEN <<>>
  ELSE IF b[1] = "\\" /\ Len(b) >= 2 THEN <<b[2]>> \o WithoutEscapes(SubSeq(b, 3, Len(b)))
  ELSE <<b[1]>> \o WithoutEscapes(Tail(b))
\* Every quote of b follows a backslash that escapes it
RECURSIVE QuotesEscaped(_)
QuotesEscaped(b) ==
  IF b = <<>> THEN TRUE
  ELSE IF b[1] = "\\" /\ Len(b) >= 2 THEN QuotesEscaped(SubSeq(b, 3, Len(b)))
  ELSE b[1] # "\"" /\ QuotesEscaped(Tail(b))

\* C10 as stated: the content returned for a quoted string is the text
\* between its quotes, backslashes included.
C10_EscapeKeepsBackslash ==
  TopLevelString => result = Str(StringBody)

\* C10 amended: inside a quoted value a backslash consumes the following
\* character verbatim; the backslash itself is dropped and only the
\* following character is kept in the content; the string ends at the first
\* quote that is not escaped.
C10_EscapeDropsBackslash ==
  TopLevelString =>
    /\ result = Str(WithoutEscapes(StringBody))
    /\ text[pos] = "\""
    /\ QuotesEscaped(StringBody)

\* C10 witness: a quoted string holding an escaped quote was returned as the
\* quote character alone.
C10_EscapedQuoteParsed ==
  /\ TopLevelString
  /\ \E i \in 1..(Len(StringBody) - 1) : StringBody[i] = "\\" /\ StringBody[i + 1] = "\""
  /\ result = Str(<<"\"">>)

----------------------------------------------------------------------------
(* format_sexp of strip_symbol_properties.py, and parsing what it wrote *)

\* A sexpdata.Symbol: an atom of the tree, as opposed to a quoted string
Atom(s) == [k |-> "atom", s |-> s, items |-> <<>>]

\* sexp.replace('\\', '\\\\').replace('"', '\\"')
RECURSIVE EscapeString(_)
EscapeString(s) ==
  IF s = <<>> THEN <<>>
  ELSE (IF s[1] \in {"\\", "\""} THEN <<"\\", s[1]>> ELSE <<s[1]>>)
         \o EscapeString(Tail(s))

inline_threshold == 40

\* " ".join(parts)
RECURSIVE JoinSpace(_)
JoinSpace(parts) ==
  IF parts = <<>> THEN <<>>
  ELSE IF Len(parts) = 1 THEN parts[1]
  ELSE parts[1] \o <<" ">> \o JoinSpace(Tail(parts))

Tabs(n) == [i \in 1..n |-> "\t"]
HasNewline(s) == \E i \in 1..Len(s) : s[i] = "\n"

RECURSIVE format_sexp(_, _)
\* The multi-line form: the first item after the parenthesis, a nested list
\* on a new line one tab deeper, any other item after a space
RECURSIVE MultiLine(_, _, _)
MultiLine(items, i, indent) ==
  IF i > Len(items) THEN <<>>
  ELSE (IF i = 1 THEN format_sexp(items[i], indent)
        ELSE IF items[i].k = "list"
             THEN <<"\n">> \o Tabs(indent + 1) \o format_sexp(items[i], indent + 1)
             ELSE <<" ">> \o format_sexp(items[i], indent))
         \o MultiLine(items, i + 1, indent)

format_sexp(sexp, indent) ==
  IF sexp.k = "atom" THEN sexp.s
  ELSE IF sexp.k = "str" THEN <<"\"">> \o EscapeString(sexp.s) \o <<"\"">>
  ELSE IF sexp.items = <<>> THEN <<"(", ")">>
  ELSE LET inline == <<"(">> \o JoinSpace([i \in 1..Len(sexp.items) |->
                                             format_sexp(sexp.items[i], 0)])
                       \o <<")">>
       IN IF Len(inline) <= inline_threshold /\ ~HasNewline(inline) THEN inline
          ELSE <<"(">> \o MultiLine(sexp.items, 1, indent) \o <<")">>

\* Trees of atoms, quoted strings and lists
MaxDepth == 2
MaxWidth == 2
RECURSIVE SeqsUpTo(_, _)
SeqsUpTo(S, n) ==
  IF n = 0 THEN {<<>>}
  ELSE LET shorter == SeqsUpTo(S, n - 1)
       IN shorter \cup {Append(xs, x) : xs \in {ys \in shorter : Len(ys) = n - 1}, x \in S}
QuotedChars == {"a", " ", "(", ")", "\"", "\\"}
Leaves ==
  {Atom(<<"a">>)}
    \cup {Str(s) : s \in SeqsUpTo(QuotedChars, 1)}
    \cup {Str(<<c, d>>) : c, d \in {"\"", "\\"}}
RECURSIVE TreesOf(_)
TreesOf(d) ==
  IF d = 0 THEN Leaves
  ELSE LET below == TreesOf(d - 1)
       IN below \cup {List(xs) : xs \in SeqsUpTo(below, MaxWidth)}
Trees == TreesOf(MaxDepth)

RoundTripInit ==
  /\ tree \in Trees
  /\ text = format_sexp(tree, 0)
  /\ pos = 0
  /\ stack = <<>>
  /\ result = Unset
  /\ pc = "call"

InitRoundTrip == RoundTripInit /\ ResolveIdle /\ DumpIdle /\ EscapeIdle /\ ToolsIdle
NextRoundTrip == ParseCall \/ ParseList
SpecRoundTrip == InitRoundTrip /\ [][NextRoundTrip]_vars

\* The tree with every atom turned into a string of the same text
RECURSIVE AsStrings(_)
AsStrings(t) ==
  IF t.k = "atom" THEN Str(t.s)
  ELSE IF t.k = "str" THEN t
  ELSE List([i \in 1..Len(t.items) |-> AsStrings(t.items[i])])

\* C11: parsing the text that serializes a tree never fails and returns the
\* tree itself: the same atoms, the same quoted-string contents, atoms still
\* told apart from quoted strings, the same list nesting.
C11_RoundTrip ==
  /\ pc # "error"
  /\ pc = "done" => result = tree

\* Apart from the atom/string distinction the tree is preserved
RoundTripAsStrings ==
  /\ pc # "error"
  /\ pc = "done" => result = AsStrings(tree)

----------------------------------------------------------------------------
(* extract_symbols_from_sexp *)

T_symbol == Str(<<"s", "y", "m", "b", "o", "l">>)
T_property == Str(<<"p", "r", "o", "p", "e", "r", "t", "y">>)

IsList(x) == x.k = "list"

\* symbol_ref: f"{library_name}:{symbol_name}" when library_name is truthy,
\* the symbol name otherwise
symbol_ref(symbol_name, ns) ==
  IF Truthy(ns) THEN Str(ns.s \o <<":">> \o symbol_name.s) ELSE symbol_name

\* The loop over item[2:]: every (property name value ...) child assigns
\* properties[name] = value
RECURSIVE ExtractProperties(_, _, _)
ExtractProperties(item, i, properties) ==
  IF i > Len(item.items) THEN properties
  ELSE LET sub_item == item.items[i]
       IN IF /\ IsList(sub_item)
             /\ Len(sub_item.items) > 0
             /\ sub_item.items[1] = T_property
             /\ Len(sub_item.items) > 2
          THEN ExtractProperties(item, i + 1,
                 Put(properties, sub_item.items[2].s, sub_item.items[3]))
          ELSE ExtractProperties(item, i + 1, properties)

\* The properties dict of a definition node
definition_properties(item, ns) ==
  ExtractProperties(item, 3,
    <<Item(N_Symbol_Name, item.items[2]),
      Item(N_Symbol, symbol_ref(item.items[2], ns))>>)

RECURSIVE extract_symbols_from_sexp(_, _)
\* The loop over the items of a list node
RECURSIVE ExtractItems(_, _, _)
ExtractItems(sexp, i, ns) ==
  IF i > Len(sexp.items) THEN <<>>
  ELSE LET item == sexp.items[i]
       IN (IF IsList(item) /\ Len(item.items) > 0
           THEN IF item.items[1] = T_symbol /\ Len(item.items) > 1
                THEN <<definition_properties(item, ns)>>
                ELSE extract_symbols_from_sexp(item, ns)
           ELSE <<>>)
          \o ExtractItems(sexp, i + 1, ns)

extract_symbols_from_sexp(sexp, ns) ==
  IF ~IsList(sexp) THEN <<>> ELSE ExtractItems(sexp, 1, ns)

\* main: symbols = extract_symbols_from_sexp(sexp, library_name) on the tree
\* the parser returned
ExtractSymbols ==
  /\ pc = "done"
  /\ rpc = "parsed"
  /\ symbols' = extract_symbols_from_sexp(result, library_name)
  /\ rpc' = "extracted"
  /\ UNCHANGED <<name_mappings, mapping_patterns, fields, field_mapping,
                 column_values, library_name, column_edits, unique_columns>>
  /\ UNCHANGED <<parserVars, dumpVars, escapeVars, toolVars>>

\* The libraries extraction is run on: property nodes, complete and too
\* short, definitions with up to MaxChildren children, groups around them
MaxChildren == 2
MaxItems == 2
PropertyNode(n, v) == List(<<T_property, Str(n), Str(v)>>)
PropertyNodes ==
  {PropertyNode(N_Reference, <<"x">>), PropertyNode(N_Reference, <<"y">>),
   PropertyNode(N_Symbol, <<"x">>), PropertyNode(N_Symbol_Name, <<"x">>)}
DefinitionChildren ==
  PropertyNodes
    \cup {List(<<T_property, Str(N_Reference)>>),
          List(<<T_symbol, Str(<<"u">>)>>),
          List(<<Str(<<"g">>), PropertyNode(N_Reference, <<"z">>)>>)}
DefinitionNames == {<<"s">>, <<"t">>}
DefinitionNodes ==
  {List(<<T_symbol, Str(n)>> \o cs) :
     n \in DefinitionNames, cs \in SeqsUpTo(DefinitionChildren, MaxChildren)}
LibraryItems ==
  DefinitionNodes
    \cup {Str(<<"a">>), List(<<T_symbol>>)}
    \cup {List(<<Str(<<"g">>), List(<<T_symbol, Str(n)>>)>>) : n \in DefinitionNames}
Libraries ==
  {List(<<Str(<<"l", "i", "b">>)>> \o xs) : xs \in SeqsUpTo(LibraryItems, MaxItems)}
    \cup DefinitionNodes \cup {Str(<<"a">>), None}

ExtractInit ==
  /\ text = <<>>
  /\ pos = 0
  /\ stack = <<>>
  /\ result \in Libraries
  /\ pc = "done"
  /\ tree = Unset
  /\ symbols = <<>>
  /\ name_mappings = <<>>
  /\ mapping_patterns = <<>>
  /\ fields = {}
  /\ field_mapping = <<>>
  /\ column_values = <<>>
  /\ rpc = "parsed"
  /\ library_name \in {None, Str(<<>>), Str(<<"l">>)}
  /\ column_edits = <<>>
  /\ unique_columns = <<>>

InitExtract == ExtractInit /\ DumpIdle /\ EscapeIdle /\ ToolsIdle
NextExtract == ExtractSymbols
SpecExtract == InitExtract /\ [][NextExtract]_vars

\* Every node of a tree
RECURSIVE NodesOf(_)
NodesOf(t) ==
  IF IsList(t) THEN {t} \cup UNION {NodesOf(t.items[i]) : i \in 1..Len(t.items)}
  ELSE {t}
\* A definition: a list whose first element is the tag and that has a name
IsDefinition(t) == IsList(t) /\ Len(t.items) > 1 /\ t.items[1] = T_symbol
\* The immediate property children of a definition, in document order
PropertyChildren(d) ==
  SelectSeq(d.items, LAMBDA c : IsList(c) /\ Len(c.items) > 2 /\ c.items[1] = T_property)
\* The value the last property child named n gives
LastValue(d, n) ==
  LET ps == PropertyChildren(d)
      last == CHOOSE i \in 1..Len(ps) :
                /\ ps[i].items[2].s = n
                /\ \A j \in (i + 1)..Len(ps) : ps[j].items[2].s # n
  IN ps[last].items[3]
PropertyNames(d) == {PropertyChildren(d)[i].items[2].s : i \in 1..Len(PropertyChildren(d))}
\* 'NS:NAME', just NAME when no namespace is given
Reference_in_library(d) ==
  IF library_name \in {None, Str(<<>>)} THEN d.items[2]
  ELSE Str(library_name.s \o <<":">> \o d.items[2].s)
\* r is the record the contract describes for the definition d
IsRecordOf(r, d) ==
  /\ Keys(r) = {N_Symbol_Name, N_Symbol} \cup PropertyNames(d)
  /\ Get(r, N_Symbol_Name) = d.items[2]
  /\ Get(r, N_Symbol) = Reference_in_library(d)
  /\ \A n \in PropertyNames(d) \ {N_Symbol_Name, N_Symbol} : Get(r, n) = LastValue(d, n)

\* C12: every extracted record is the record of a definition of the tree:
\* Symbol_Name is its name and Symbol its namespaced name whatever properties
\* it carries, and every other entry is the value of the last immediate
\* property child of that name.
C12_RecordContents ==
  rpc = "extracted" =>
    \A i \in 1..Len(symbols) :
      \E d \in {n \in NodesOf(result) : IsDefinition(n)} : IsRecordOf(symbols[i], d)

\* The definitions of a tree in pre-order, none nested inside another
RECURSIVE PreOrderDefinitions(_)
RECURSIVE PreOrderOfItems(_, _)
PreOrderOfItems(t, i) ==
  IF i > Len(t.items) THEN <<>>
  ELSE PreOrderDefinitions(t.items[i]) \o PreOrderOfItems(t, i + 1)
PreOrderDefinitions(t) ==
  IF IsDefinition(t) THEN <<t>>
  ELSE IF IsList(t) THEN PreOrderOfItems(t, 1)
  ELSE <<>>

\* C13: the records returned are those of the definitions of the tree that
\* are not nested inside another definition, the root included when it is
\* one, one record each, in pre-order.
C13_DiscoveryOrder ==
  rpc = "extracted" =>
    symbols = [i \in 1..Len(PreOrderDefinitions(result)) |->
                 definition_properties(PreOrderDefinitions(result)[i], library_name)]

\* C13 with the root left out: the same for the definitions below the root
DiscoveryBelowRoot ==
  rpc = "extracted" =>
    symbols = IF IsList(result)
              THEN [i \in 1..Len(PreOrderOfItems(result, 1)) |->
                      definition_properties(PreOrderOfItems(result, 1)[i], library_name)]
              ELSE <<>>

----------------------------------------------------------------------------
(* The mapping stage of main: collect_all_fields, apply_column_edits,     *)
(* create_field_mapping, get_unique_columns                                *)

\* Raw property names: two that sanitize to the same column, one that
\* differs from them in case only, one with a run of two characters outside
\* \w, one that the configurations rename, one next to a built-in name
N_i_R == <<"i", "_", "R">>
N_I_run == <<"I", " ", ".", "r">>
RawNames == {N_I_Sp, N_I_r, N_i_R, N_I_run, N_Imax, N_Sim_Sp}
MaxNames == 2

\* A record with the given property names
RecordOf(names) ==
  <<Item(N_Symbol_Name, Str(<<"s">>)), Item(N_Symbol, Str(<<"l", ":", "s">>))>>
    \o [i \in 1..Len(names) |-> Item(names[i], Str(<<"v">>))]
NameLists(n) == {ns \in SeqsUpTo(RawNames, n) : \A i, j \in 1..Len(ns) : i # j => ns[i] # ns[j]}
RecordLists ==
  {<<RecordOf(ns)>> : ns \in NameLists(MaxNames)}
    \cup {<<RecordOf(ns), RecordOf(ms)>> : ns, ms \in NameLists(1)}

\* field_mappings and field_mapping_patterns sections
MappingConfigs ==
  { [mappings |-> <<>>, patterns |-> <<>>],
    [mappings |-> <<Item(N_Imax, N_I_Sp)>>,
     patterns |-> <<Pattern(<<"m", "a", "x">>, <<"X">>)>>],
    [mappings |-> <<>>,
     patterns |-> <<Pattern(<<"(", "m">>, <<"X">>), Pattern(<<"m", "a", "x">>, N_i_R)>>],
    [mappings |-> <<>>,
     patterns |-> <<Pattern(<<"^", "I">>, <<"A">>), Pattern(<<"r">>, <<"B", "-", "-", "b">>),
                    Pattern(<<"*">>, <<"X">>)>>],
    [mappings |-> <<Item(N_I_r, <<"_", "q", "_">>)>>,
     patterns |-> <<Pattern(<<"I", ".", "*", "r", "$">>, <<"C">>)>>] }

\* column_edits sections
Edit(p, action) == Item(p, action)
N_Zed == <<"Z", "e", "d">>
N_I_dot == <<"I", ".", "x">>
ColumnEdits ==
  { <<>>,
    <<Edit(N_Zed, A_add)>>,
    <<Edit(N_I_dot, A_add)>>,
    <<Edit(N_Sim_Device, A_remove)>>,
    <<Edit(N_I_Sp, A_remove), Edit(N_Zed, <<"d", "r", "o", "p">>)>>,
    <<Edit(<<"^", "I">>, A_remove), Edit(N_Imax, A_add)>>,
    <<Edit(<<"(", "m">>, A_remove), Edit(N_I_run, A_remove)>>,
    <<Edit(N_Zed, A_add), Edit(<<"*", "I">>, A_remove), Edit(<<"I", ".", "*", "r", "$">>, A_remove)>> }

\* The configurations: every mapping section without column edits, and the
\* column edits with no mapping section or with the one that holds an
\* invalid pattern
HasInvalidPattern(c) == \E i \in 1..Len(c.patterns) : ~RegexValid(c.patterns[i].pattern)
MappingInit ==
  /\ symbols \in RecordLists
  /\ \E c \in MappingConfigs, e \in ColumnEdits :
       /\ e = <<>> \/ c.patterns = <<>> \/ (HasInvalidPattern(c) /\ Len(c.patterns) = 2)
       /\ name_mappings = c.mappings
       /\ mapping_patterns = c.patterns
       /\ column_edits = e
  /\ fields = {}
  /\ field_mapping = <<>>
  /\ column_values = <<>>
  /\ rpc = "extracted"
  /\ library_name = Str(<<"l">>)
  /\ unique_columns = <<>>

InitMapping == ParserIdle /\ MappingInit /\ DumpIdle /\ EscapeIdle /\ ToolsIdle
NextMapping ==
  CollectAllFields \/ ApplyColumnEdits \/ CreateFieldMapping \/ GenerateCreateTableSql
SpecMapping == InitMapping /\ [][NextMapping]_vars

\* The column a raw name is mapped to
ColumnOf(name) == Lookup(field_mapping, name)
SameColumn(c, d) == LowerStr(c) = LowerStr(d)
Columns == {unique_columns[i] : i \in 1..Len(unique_columns)}

\* C14: the column list holds no two names that are equal ignoring case,
\* every mapped column is in it ignoring case, and each column is spelled as
\* the first raw name (in mapping order) that maps to it spells it.
C14_CaseInsensitiveCollapse ==
  rpc = "created" =>
    /\ \A i, j \in 1..Len(unique_columns) :
         i # j => ~SameColumn(unique_columns[i], unique_columns[j])
    /\ \A k \in 1..Len(field_mapping) :
         \E c \in Columns :
           /\ SameColumn(c, field_mapping[k].val)
           /\ (\A j \in 1..(k - 1) : ~SameColumn(field_mapping[j].val, field_mapping[k].val))
                => c = field_mapping[k].val
    /\ \A c \in Columns : \E k \in 1..Len(field_mapping) : field_mapping[k].val = c

\* C14 witness: 'I r' and 'I_r' sanitize to the same column and 'i_R'
\* differs from it in case only; the three raw names gave the one column I_r.
C14_ThreeNamesOneColumn ==
  /\ rpc = "created"
  /\ {N_I_Sp, N_i_R} \subseteq Keys(field_mapping)
  /\ ColumnOf(N_I_Sp) = N_I_r
  /\ ColumnOf(N_i_R) = N_i_R
  /\ N_I_r \in Columns
  /\ N_i_R \notin Columns

\* The canonical name of a raw name under the configuration
CanonicalName(name) == NormalizedField(name, name_mappings, mapping_patterns)
\* Trimming leading and trailing underscores
RECURSIVE TrimUnderscores(_)
TrimUnderscores(s) ==
  IF s # <<>> /\ s[1] = "_" THEN TrimUnderscores(Tail(s))
  ELSE IF s # <<>> /\ s[Len(s)] = "_" THEN TrimUnderscores(SubSeq(s, 1, Len(s) - 1))
  ELSE s
\* Every character outside letters, digits and underscore becomes an underscore
UnderscoreEach(s) == [i \in 1..Len(s) |-> IF IsWord(s[i]) THEN s[i] ELSE "_"]
\* Every maximal run of characters outside letters, digits and underscore
\* becomes one underscore
UnderscoreRuns(s) ==
  LET idx == Ascending({i \in 1..Len(s) : IsWord(s[i]) \/ i = 1 \/ IsWord(s[i - 1])})
  IN [n \in 1..Len(idx) |-> IF IsWord(s[idx[n]]) THEN s[idx[n]] ELSE "_"]

\* C15 as stated: the column name is the canonical name with EVERY character
\* outside letters, digits and underscore replaced by an underscore of its
\* own, then trimmed of leading and trailing underscores.
C15_UnderscorePerCharacter ==
  rpc = "mapped" =>
    \A k \in 1..Len(field_mapping) :
      field_mapping[k].val = TrimUnderscores(UnderscoreEach(CanonicalName(field_mapping[k].key)))

\* C15 amended: the column name is the canonical name with every maximal run
\* of characters outside letters, digits and underscore replaced by ONE
\* underscore, then trimmed of leading and trailing underscores.
C15_UnderscorePerRun ==
  rpc = "mapped" =>
    \A k \in 1..Len(field_mapping) :
      field_mapping[k].val = TrimUnderscores(UnderscoreRuns(CanonicalName(field_mapping[k].key)))

\* C15 witness: the raw name 'I .r', with a run of two such characters, was
\* mapped to the column I_r.
C15_RunCollapsed ==
  /\ rpc = "mapped"
  /\ N_I_run \in Keys(field_mapping)
  /\ CanonicalName(N_I_run) = N_I_run
  /\ ColumnOf(N_I_run) = N_I_r

\* The raw names that map to the column c, and the first of them in
\* ascending sorted order
RawNamesOf(c) == {n \in Keys(field_mapping) : SameColumn(ColumnOf(n), c)}
FirstSorted(S) == CHOOSE n \in S : \A m \in S : m = n \/ StrLess(n, m)

\* C16: the column of Symbol_Name is the first column, and the other columns
\* stand in the order of their first raw names, the raw names taken in
\* ascending sorted order.
C16_ColumnOrder ==
  rpc = "created" =>
    LET first == [i \in 1..Len(unique_columns) |-> FirstSorted(RawNamesOf(unique_columns[i]))]
        named == {i \in 1..Len(unique_columns) :
                    N_Symbol_Name \in RawNamesOf(unique_columns[i])}
    IN /\ N_Symbol_Name \in Keys(field_mapping) => named = {1}
       /\ \A i, j \in 1..Len(unique_columns) :
            (i \notin named /\ j \notin named /\ StrLess(first[i], first[j])) => i < j

\* C16 witness: Symbol_Name is the first column although the column
\* Footprint, whose raw name sorts before it, is there too.
C16_SymbolNameBeforeFootprint ==
  /\ rpc = "created"
  /\ unique_columns[1] = N_Symbol_Name
  /\ N_Footprint \in Columns
  /\ StrLess(N_Footprint, N_Symbol_Name)
  /\ Len(symbols) = 2

\* The patterns that compile and match somewhere in the raw name
MatchingPatterns(name) ==
  {i \in 1..Len(mapping_patterns) :
     /\ RegexValid(mapping_patterns[i].pattern)
     /\ RegexSearch(mapping_patterns[i].pattern, name)}
Least(S) == CHOOSE i \in S : \A j \in S : i <= j
\* The canonical name the rename rule gives a raw name
Renamed(name) ==
  IF Has(name_mappings, name) THEN Lookup(name_mappings, name)
  ELSE IF MatchingPatterns(name) # {}
       THEN mapping_patterns[Least(MatchingPatterns(name))].replacement
  ELSE name

\* C17: an exact entry of name_mappings decides the canonical name and the
\* patterns are not consulted; otherwise the first pattern, in list order,
\* that matches anywhere in the raw name decides; otherwise the raw name is
\* its own canonical name.  The column is the sanitized canonical name.
C17_RenamePrecedence ==
  rpc = "mapped" =>
    \A k \in 1..Len(field_mapping) :
      field_mapping[k].val = TrimUnderscores(UnderscoreRuns(Renamed(field_mapping[k].key)))

\* C17 witness: Imax has the exact entry 'I r' and also matches the pattern
\* 'max'; it was mapped to the column I_r.
C17_ExactBeforePattern ==
  /\ rpc = "mapped"
  /\ N_Imax \in Keys(field_mapping)
  /\ Has(name_mappings, N_Imax)
  /\ MatchingPatterns(N_Imax) # {}
  /\ ColumnOf(N_Imax) = N_I_r

\* The column edits as the contract describes them: add inserts the literal
\* name, remove with a literal name deletes that name, remove with a pattern
\* deletes the names the pattern matches, anything else changes nothing
EditAsSpecified(flds, col_pattern, action) ==
  IF action = A_add THEN flds \cup {col_pattern}
  ELSE IF action = A_remove
  THEN IF LooksLikeRegex(col_pattern)
       THEN flds \ {f \in flds : RegexValid(col_pattern) /\ RegexMatch(col_pattern, f)}
       ELSE flds \ {col_pattern}
  ELSE flds
RECURSIVE EditsAsSpecified(_, _, _)
EditsAsSpecified(flds, rules, i) ==
  IF i > Len(rules) THEN flds
  ELSE EditsAsSpecified(EditAsSpecified(flds, rules[i].key, rules[i].val), rules, i + 1)

\* C18: after the column edits the name set is the collected set with every
\* add rule's literal name inserted, also a name that holds a '.', every
\* remove rule's literal name or matched names deleted, and nothing else
\* changed.
C18_ColumnEdits ==
  rpc = "edited" =>
    fields = EditsAsSpecified(collect_all_fields(symbols), column_edits, 1)

\* A rule whose regular expression does not compile
InvalidEdit(e) == LooksLikeRegex(e.key) /\ ~RegexValid(e.key)
ValidEdit(e) == ~InvalidEdit(e)
ValidPattern(p) == RegexValid(p.pattern)

\* C19: with rules whose regular expression does not compile in column_edits
\* or mapping_patterns, the name set and the field mapping are those of the
\* configuration with these rules deleted.
C19_InvalidPatternSkipped ==
  /\ rpc = "edited" =>
       fields = apply_column_edits(collect_all_fields(symbols),
                                   SelectSeq(column_edits, ValidEdit))
  /\ rpc = "mapped" =>
       field_mapping = create_field_mapping(fields, name_mappings,
                                            SelectSeq(mapping_patterns, ValidPattern))

\* C19 witness: the edits hold an invalid rule followed by the removal of
\* 'I .r', which was done, and the patterns an invalid rule followed by the
\* one that renamed Imax.
C19_RulesAfterInvalidApplied ==
  /\ rpc = "mapped"
  /\ Len(column_edits) = 2
  /\ InvalidEdit(column_edits[1])
  /\ N_I_run \in collect_all_fields(symbols)
  /\ N_I_run \notin fields
  /\ Len(mapping_patterns) = 2
  /\ ~ValidPattern(mapping_patterns[1])
  /\ N_Imax \in Keys(field_mapping)
  /\ ColumnOf(N_Imax) = N_i_R

\* The set of raw names of the records with the built-in names, after the
\* column edits
NameSet ==
  LET collected == UNION {Keys(symbols[i]) : i \in 1..Len(symbols)}
                     \cup {N_Symbol, N_Footprint, N_Sim_Device, N_Sim_Pins,
                           N_Sim_Type, N_Sim_Library}
  IN apply_column_edits(collected, column_edits)
\* The candidates of a column: the raw names mapped to it, in mapping order
CandidateList(c) ==
  SelectSeq([k \in 1..Len(field_mapping) |-> field_mapping[k].key],
            LAMBDA n : SameColumn(ColumnOf(n), c))

\* C20: the mapping is a function of the set of raw names and the
\* configuration alone: its raw names are the set's, Symbol_Name first and
\* the others ascending, each mapped to the column its name and the
\* configuration give; hence the column order and each column's candidate
\* list do not depend on the order of the records either.
C20_MappingDeterminism ==
  rpc = "created" =>
    /\ Keys(field_mapping) = NameSet
    /\ \A i, j \in 1..Len(field_mapping) :
         i < j => /\ field_mapping[j].key # N_Symbol_Name
                  /\ field_mapping[i].key = N_Symbol_Name
                       \/ StrLess(field_mapping[i].key, field_mapping[j].key)
    /\ \A k \in 1..Len(field_mapping) :
         field_mapping[k].val = Sanitize(CanonicalName(field_mapping[k].key))
    /\ \A c \in Columns :
         \A i, j \in 1..Len(CandidateList(c)) :
           i < j => CandidateList(c)[i] = N_Symbol_Name
                      \/ StrLess(CandidateList(c)[i], CandidateList(c)[j])

\* C20 witness: two records met in the order Imax, 'I r', the reverse of the
\* sorted order of the two names, were mapped.
C20_RecordsOutOfOrder ==
  /\ rpc = "created"
  /\ Len(symbols) = 2
  /\ N_Imax \in Keys(symbols[1])
  /\ N_I_Sp \in Keys(symbols[2])
  /\ {N_Imax, N_I_Sp} \subseteq Keys(field_mapping)

----------------------------------------------------------------------------
(* migrate_to_tables.py: the classifier *)

\* The column names of the symbols table the classifier and map_core_fields read
N_Description == <<"D", "e", "s", "c", "r", "i", "p", "t", "i", "o", "n">>
N_Component_Type == <<"C", "o", "m", "p", "o", "n", "e", "n", "t", "_", "T", "y", "p", "e">>
N_Part_ID == <<"P", "a", "r", "t", "_", "I", "D">>

\* REFERENCE_TO_TABLE, in the order of the dict literal; table names are
\* written as TLA+ strings, they are only compared
REFERENCE_TO_TABLE ==
  <<Item(<<"R">>, "resistors"),
    Item(<<"C">>, "capacitors"),
    Item(<<"L">>, "inductors"),
    Item(<<"F", "B">>, "ferrites"),
    Item(<<"Q">>, "transistors"),
    Item(<<"D">>, "diodes"),
    Item(<<"J">>, "connectors"),
    Item(<<"L", "E", "D">>, "leds"),
    Item(<<"S", "W">>, "switches"),
    Item(<<"U">>, "ic_analog"),
    Item(<<"I", "C">>, "ic_analog")>>

\* x in s, on strings
Contains(x, s) == \E i \in 0..(Len(s) - Len(x)) : SubSeq(s, i + 1, i + Len(x)) = x
\* any(x in s for x in keywords)
AnyIn(keywords, s) == \E i \in 1..Len(keywords) : Contains(keywords[i], s)

\* The keyword lists of categorize_ic, by group: those looked for in the
\* description and those looked for in the component type
OpampDesc ==
  <<<<"o", "p", "-", "a", "m", "p">>,
    <<"o", "p", "a", "m", "p">>,
    <<"o", "p", "e", "r", "a", "t", "i", "o", "n", "a", "l", " ", "a", "m", "p", "l", "i", "f", "i", "e", "r">>,
    <<"i", "n", "s", "t", "r", "u", "m", "e", "n", "t", "a", "t", "i", "o", "n", " ", "a", "m", "p">>>>
OpampType == <<<<"o", "p", "a", "m", "p">>,
             <<"o", "p", "-", "a", "m", "p">>>>
McuDesc ==
  <<<<"m", "i", "c", "r", "o", "c", "o", "n", "t", "r", "o", "l", "l", "e", "r">>,
    <<"m", "c", "u">>,
    <<"s", "t", "m", "3", "2">>,
    <<"p", "i", "c">>,
    <<"a", "v", "r">>,
    <<"e", "s", "p", "3", "2">>,
    <<"r", "p", "2", "0", "4", "0">>>>
McuType == <<<<"m", "i", "c", "r", "o", "c", "o", "n", "t", "r", "o", "l", "l", "e", "r">>,
           <<"m", "c", "u">>>>
LogicDesc ==
  <<<<"l", "o", "g", "i", "c">>,
    <<"g", "a", "t", "e">>,
    <<"b", "u", "f", "f", "e", "r">>,
    <<"l", "a", "t", "c", "h">>,
    <<"f", "l", "i", "p", "-", "f", "l", "o", "p">>,
    <<"d", "e", "c", "o", "d", "e", "r">>,
    <<"m", "u", "x">>>>
LogicTypePrefix == <<"7", "4">>
MemoryDesc ==
  <<<<"m", "e", "m", "o", "r", "y">>,
    <<"s", "r", "a", "m">>,
    <<"d", "r", "a", "m">>,
    <<"f", "l", "a", "s", "h">>,
    <<"e", "e", "p", "r", "o", "m">>,
    <<"f", "r", "a", "m">>>>
MemoryType == <<<<"m", "e", "m", "o", "r", "y">>,
              <<"s", "r", "a", "m">>,
              <<"e", "e", "p", "r", "o", "m">>>>
DriverDesc ==
  <<<<"d", "r", "i", "v", "e", "r">>,
    <<"g", "a", "t", "e", " ", "d", "r", "i", "v", "e", "r">>,
    <<"l", "e", "d", " ", "d", "r", "i", "v", "e", "r">>,
    <<"m", "o", "t", "o", "r", " ", "d", "r", "i", "v", "e", "r">>>>
DriverType == <<<<"d", "r", "i", "v", "e", "r">>>>

\* (row.get(key) or '').lower()
LowerOrEmpty(row, key) == IF Truthy(Get(row, key)) THEN LowerStr(Get(row, key).s) ELSE <<>>

\* A categorize_ic with a bucket of its own for every IC
categorize_ic_power(row) == "ic_power"

\* categorize_ic
categorize_ic(row) ==
  LET desc == LowerOrEmpty(row, N_Description)
      comp_type == LowerOrEmpty(row, N_Component_Type)
  IN IF AnyIn(OpampDesc, desc) THEN "ic_opamp"
     ELSE IF AnyIn(OpampType, comp_type) THEN "ic_opamp"
     ELSE IF AnyIn(McuDesc, desc) THEN "ic_microcontrollers"
     ELSE IF AnyIn(McuType, comp_type) THEN "ic_microcontrollers"
     ELSE IF AnyIn(LogicDesc, desc) THEN "ic_logic"
     ELSE IF IsPrefix(LogicTypePrefix, comp_type) THEN "ic_logic"
     ELSE IF AnyIn(MemoryDesc, desc) THEN "ic_memory"
     ELSE IF AnyIn(MemoryType, comp_type) THEN "ic_memory"
     ELSE IF AnyIn(DriverDesc, desc) THEN "ic_drivers"
     ELSE IF AnyIn(DriverType, comp_type) THEN "ic_drivers"
     ELSE "ic_analog"

\* reference in REFERENCE_TO_TABLE: None is hashable and is no key
InReferenceToTable(reference) == reference.k = "str" /\ Has(REFERENCE_TO_TABLE, reference.s)

\* get_target_table
get_target_table(row) ==
  LET reference == GetOr(row, N_Reference, Str(<<>>))
  IN IF InReferenceToTable(reference)
     THEN LET table == Lookup(REFERENCE_TO_TABLE, reference.s)
          IN IF table = "ic_analog" THEN categorize_ic(row) ELSE table
     ELSE "connectors"

----------------------------------------------------------------------------
(* migrate_to_tables.py: migrate_data *)

\* prefix_map of generate_part_id
prefix_map ==
  <<Item("resistors", <<"R", "E", "S">>),
    Item("capacitors", <<"C", "A", "P">>),
    Item("inductors", <<"I", "N", "D">>),
    Item("ferrites", <<"F", "E", "R">>),
    Item("transistors", <<"T", "R", "N">>),
    Item("diodes", <<"D", "I", "O">>),
    Item("connectors", <<"C", "O", "N">>),
    Item("ic_drivers", <<"D", "R", "V">>),
    Item("ic_microcontrollers", <<"M", "C", "U">>),
    Item("ic_logic", <<"L", "O", "G">>),
    Item("ic_memory", <<"M", "E", "M">>),
    Item("ic_opamp", <<"O", "P", "A">>),
    Item("ic_analog", <<"A", "N", "A">>),
    Item("leds", <<"L", "E", "D">>),
    Item("switches", <<"S", "W">>)>>

\* generate_part_id: the prefix, '-', the sequence number on four digits
generate_part_id(table, sequence) ==
  GetOr(prefix_map, table, <<"P", "A", "R", "T">>) \o <<"-">> \o ZeroPad(IntToStr(sequence), 4)

\* The tables create_table_schemas creates, lines 334-621
CreatedTables ==
  {"resistors", "capacitors", "inductors", "ferrites", "transistors", "diodes",
   "connectors", "ic_drivers", "ic_microcontrollers", "ic_logic", "ic_memory",
   "ic_opamp", "ic_analog", "leds", "switches"}

\* The keys of part_counter, in the order of the list in migrate_data
PartCounterTables ==
  <<"resistors", "capacitors", "inductors", "ferrites", "transistors",
    "diodes", "connectors", "ic_drivers", "ic_microcontrollers",
    "ic_logic", "ic_memory", "ic_opamp", "ic_analog", "leds", "switches">>

\* old_row.get('Part_ID') or old_row.get('Symbol_Name')
GivenPartId(old_row) ==
  IF Truthy(Get(old_row, N_Part_ID)) THEN Get(old_row, N_Part_ID)
  ELSE Get(old_row, N_Symbol_Name)

\* sqlite3.connect(str(input_db)), line 630
ConnectSource ==
  /\ mpc = "start"
  /\ IF fault = "connect_source"
     THEN mpc' = "raised" /\ UNCHANGED open_conns
     ELSE mpc' = "source_open" /\ open_conns' = open_conns \cup {"source_conn"}
  /\ UNCHANGED <<old_rows, fault, target_tables, part_counter, row_index, table_name, migrated>>
  /\ UNCHANGED <<parserVars, resolveVars, dumpVars, escapeVars, databaseVars, exit_status>>

\* sqlite3.connect(str(output_db)), line 634: it is outside the try block,
\* so when it raises, the finally clause is not run
ConnectTarget ==
  /\ mpc = "source_open"
  /\ IF fault = "connect_target"
     THEN mpc' = "raised" /\ UNCHANGED open_conns
     ELSE mpc' = "try" /\ open_conns' = open_conns \cup {"target_conn"}
  /\ UNCHANGED <<old_rows, fault, target_tables, part_counter, row_index, table_name, migrated>>
  /\ UNCHANGED <<parserVars, resolveVars, dumpVars, escapeVars, databaseVars, exit_status>>

\* create_table_schemas(target_conn), line 639
CreateTableSchemas ==
  /\ mpc = "try"
  /\ IF fault = "create_table_schemas"
     THEN mpc' = "finally_raise" /\ UNCHANGED target_tables
     ELSE mpc' = "schemas" /\ target_tables' = CreatedTables
  /\ UNCHANGED <<open_conns, old_rows, fault, part_counter, row_index, table_name, migrated>>
  /\ UNCHANGED <<parserVars, resolveVars, dumpVars, escapeVars, databaseVars, exit_status>>

\* SELECT * FROM symbols and the part_counter dict, lines 642-654
SelectSymbols ==
  /\ mpc = "schemas"
  /\ IF fault = "select"
     THEN mpc' = "finally_raise" /\ UNCHANGED <<part_counter, row_index>>
     ELSE /\ mpc' = "rows"
          /\ part_counter' = [i \in 1..Len(PartCounterTables) |-> Item(PartCounterTables[i], 0)]
          /\ row_index' = 1
  /\ UNCHANGED <<open_conns, old_rows, fault, target_tables, table_name, migrated>>
  /\ UNCHANGED <<parserVars, resolveVars, dumpVars, escapeVars, databaseVars, exit_status>>

\* One iteration of the loop over rows, lines 657-672: get_target_table,
\* map_core_fields (which counts in part_counter when the row has no part
\* id) and the INSERT, which fails on a table the target lacks and on a
\* part_id the table already holds (part_id is its primary key)
MigrateRow ==
  /\ mpc = "rows"
  /\ row_index <= Len(old_rows)
  /\ LET old_row == old_rows[row_index]
         table == get_target_table(old_row)
         given == GivenPartId(old_row)
         counted == ~Truthy(given)
         key_error == counted /\ ~Has(part_counter, table)
         counter == IF counted /\ ~key_error
                    THEN Put(part_counter, table, Lookup(part_counter, table) + 1)
                    ELSE part_counter
         part_id == IF counted /\ ~key_error
                    THEN generate_part_id(table, Lookup(counter, table))
                    ELSE given.s
         insert_error ==
           \/ table \notin target_tables
           \/ \E i \in 1..Len(migrated) :
                migrated[i].table = table /\ migrated[i].part_id = part_id
     IN /\ table_name' = table
        /\ IF key_error
           THEN mpc' = "finally_raise" /\ UNCHANGED <<part_counter, row_index, migrated>>
           ELSE /\ part_counter' = counter
                /\ IF insert_error
                   THEN mpc' = "finally_raise" /\ UNCHANGED <<row_index, migrated>>
                   ELSE /\ migrated' = Append(migrated, [table |-> table, part_id |-> part_id])
                        /\ row_index' = row_index + 1
                        /\ UNCHANGED mpc
  /\ UNCHANGED <<open_conns, old_rows, fault, target_tables>>
  /\ UNCHANGED <<parserVars, resolveVars, dumpVars, escapeVars, databaseVars, exit_status>>

\* target_conn.commit() and the summary, lines 674-685
CommitMigration ==
  /\ mpc = "rows"
  /\ row_index > Len(old_rows)
  /\ mpc' = "finally_return"
  /\ UNCHANGED <<open_conns, old_rows, fault, target_tables, part_counter, row_index,
                 table_name, migrated>>
  /\ UNCHANGED <<parserVars, resolveVars, dumpVars, escapeVars, databaseVars, exit_status>>

\* The finally clause, lines 687-689
CloseConnections ==
  /\ mpc \in {"finally_return", "finally_raise"}
  /\ open_conns' = open_conns \ {"source_conn", "target_conn"}
  /\ mpc' = IF mpc = "finally_return" THEN "returned" ELSE "raised"
  /\ UNCHANGED <<old_rows, fault, target_tables, part_counter, row_index, table_name, migrated>>
  /\ UNCHANGED <<parserVars, resolveVars, dumpVars, escapeVars, databaseVars, exit_status>>

----------------------------------------------------------------------------
(* The symbols tables migrate_data is run on *)

\* Most rows of the symbols table
MaxSymbols == 2

\* Values of the Reference, Description and Component_Type columns
References ==
  {None,
   Str(<<>>),
   Str(<<"R">>),
   Str(<<"R", "1">>),
   Str(<<"C">>),
   Str(<<"L">>),
   Str(<<"F", "B">>),
   Str(<<"Q">>),
   Str(<<"D">>),
   Str(<<"J">>),
   Str(<<"L", "E", "D">>),
   Str(<<"S", "W">>),
   Str(<<"U">>),
   Str(<<"I", "C">>),
   Str(<<"U", "1">>),
   Str(<<"X">>),
   Str(<<"r">>)}
Descriptions ==
  {None,
   Str(<<>>),
   Str(<<"O", "p", "A", "m", "p", " ", "b", "u", "f", "f", "e", "r">>),
   Str(<<"P", "I", "C">>),
   Str(<<"G", "a", "t", "e", " ", "d", "r", "i", "v", "e", "r">>),
   Str(<<"F", "l", "a", "s", "h", " ", "d", "r", "i", "v", "e", "r">>),
   Str(<<"L", "E", "D", " ", "D", "r", "i", "v", "e", "r">>),
   Str(<<"a", "m", "p">>)}
ComponentTypes ==
  {None,
   Str(<<>>),
   Str(<<"O", "p", "-", "A", "m", "p">>),
   Str(<<"M", "C", "U">>),
   Str(<<"7", "4", "H", "C">>),
   Str(<<"S", "N", "7", "4">>),
   Str(<<"L", "o", "g", "i", "c">>),
   Str(<<"E", "E", "P", "R", "O", "M">>),
   Str(<<"D", "r", "i", "v", "e", "r">>)}

\* dict(row) of a row of the symbols table
OldRow(reference, description, component_type, part_id, symbol_name) ==
  <<Item(N_Symbol_Name, symbol_name), Item(N_Reference, reference),
    Item(N_Description, description), Item(N_Component_Type, component_type),
    Item(N_Part_ID, part_id)>>

\* dict(row) of a row of a symbols table without a Reference column
OldRowWithoutReference(description, component_type, symbol_name) ==
  <<Item(N_Symbol_Name, symbol_name), Item(N_Description, description),
    Item(N_Component_Type, component_type)>>

\* Rows that differ in what the classifier reads
ClassifiedRows ==
  {OldRow(r, d, c, None, Str(<<"s">>)) :
     r \in References, d \in Descriptions, c \in ComponentTypes}
  \cup {OldRowWithoutReference(d, c, Str(<<"s">>)) :
          d \in Descriptions, c \in {None, Str(<<"M", "C", "U">>)}}

\* Rows that differ in what map_core_fields reads for the part id
IdentifiedRows ==
  {OldRow(r, None, None, p, n) :
     r \in {Str(<<"R">>), Str(<<"U">>), Str(<<"X">>)},
     p \in {None, Str(<<>>), Str(<<"p">>)},
     n \in {None, Str(<<"s">>)}}

\* ORDER BY Symbol_Name: NULL first
InSymbolNameOrder(rs) ==
  \A i, j \in 1..Len(rs) :
     i < j => ~SqlLess(Get(rs[j], N_Symbol_Name), Get(rs[i], N_Symbol_Name))

SymbolsTables ==
  {<<>>} \cup {<<r>> : r \in ClassifiedRows}
    \cup {rs \in SeqsUpTo(IdentifiedRows, MaxSymbols) : InSymbolNameOrder(rs)}

\* The steps of migrate_data at which the store can fail
Faults == {"none", "connect_source", "connect_target", "create_table_schemas", "select"}

MigrateInit ==
  /\ old_rows \in SymbolsTables
  /\ fault \in Faults
  /\ mpc = "start"
  /\ open_conns = {}
  /\ target_tables = {}
  /\ part_counter = <<>>
  /\ row_index = 0
  /\ table_name = "none"
  /\ migrated = <<>>

InitMigrate ==
  ParserIdle /\ ResolveIdle /\ DumpIdle /\ EscapeIdle /\ DatabaseIdle /\ MigrateInit /\ exit_status = "none"
NextMigrate ==
  \/ ConnectSource
  \/ ConnectTarget
  \/ CreateTableSchemas
  \/ SelectSymbols
  \/ MigrateRow
  \/ CommitMigration
  \/ CloseConnections
SpecMigrate == InitMigrate /\ [][NextMigrate]_vars

----------------------------------------------------------------------------
(* The classifier: C21, C22, C30 *)

\* The row migrated as the i-th and the table it went to
MigratedRow(i) == old_rows[i]
MigratedTable(i) == migrated[i].table

RECURSIVE LeadingLetters(_)
LeadingLetters(s) ==
  IF s = <<>> \/ s[1] \notin (Upper \cup Lower) THEN <<>>
  ELSE <<s[1]>> \o LeadingLetters(Tail(s))

\* The prefix of a reference designator: its leading letters ('R' of 'R1')
DesignatorPrefix(reference) ==
  IF reference.k = "str" THEN LeadingLetters(reference.s) ELSE <<>>

IcTables ==
  {"ic_opamp", "ic_microcontrollers", "ic_logic", "ic_memory", "ic_drivers", "ic_analog"}

\* The table the dispatch on the designator's prefix gives: the table of
\* a listed prefix (any IC table for the coarse IC prefixes), the fallback
\* 'connectors' otherwise
RoutedByPrefix(prefix, table) ==
  IF Has(REFERENCE_TO_TABLE, prefix)
  THEN IF Lookup(REFERENCE_TO_TABLE, prefix) = "ic_analog"
       THEN table \in IcTables
       ELSE table = Lookup(REFERENCE_TO_TABLE, prefix)
  ELSE table = "connectors"

\* C21: every migrated record went to the table of its reference designator's
\* prefix when REFERENCE_TO_TABLE lists the prefix (a Reference 'R' or 'R1'
\* goes to resistors), and to the fallback table 'connectors' when the
\* Reference is unrecognized, empty or NULL.
C21_PrefixDispatch ==
  \A i \in 1..Len(migrated) :
     RoutedByPrefix(DesignatorPrefix(GetOr(MigratedRow(i), N_Reference, None)),
                    MigratedTable(i))

\* The dispatch on the Reference as a whole: the table of a listed Reference,
\* the fallback for every other one; no record is dropped on the way
DispatchOnWholeReference ==
  /\ \A i \in 1..Len(migrated) :
       LET reference == GetOr(MigratedRow(i), N_Reference, None)
       IN RoutedByPrefix(IF reference.k = "str" THEN reference.s ELSE <<>>, MigratedTable(i))
  /\ (mpc = "returned" => Len(migrated) = Len(old_rows))

\* The keyword groups in their fixed order: the table and every keyword of
\* the group
KeywordGroups ==
  <<[table |-> "ic_opamp", keywords |-> OpampDesc \o OpampType],
    [table |-> "ic_microcontrollers", keywords |-> McuDesc \o McuType],
    [table |-> "ic_logic", keywords |-> LogicDesc \o <<LogicTypePrefix>>],
    [table |-> "ic_memory", keywords |-> MemoryDesc \o MemoryType],
    [table |-> "ic_drivers", keywords |-> DriverDesc \o DriverType]>>

TextOf(row, key) == IF Get(row, key).k = "str" THEN LowerStr(Get(row, key).s) ELSE <<>>

GroupMatches(g, row) ==
  \/ AnyIn(g.keywords, TextOf(row, N_Description))
  \/ AnyIn(g.keywords, TextOf(row, N_Component_Type))

FirstGroupTable(row) ==
  LET matching == {i \in 1..Len(KeywordGroups) : GroupMatches(KeywordGroups[i], row)}
  IN IF matching = {} THEN "ic_analog"
     ELSE KeywordGroups[CHOOSE i \in matching : \A j \in matching : i <= j].table

IsCoarseIc(row) ==
  Get(row, N_Reference) \in {Str(<<"U">>), Str(<<"I", "C">>)}

\* C22: a migrated record of the coarse IC bucket (Reference 'U' or 'IC') is
\* in the table of the first keyword group, in the order op-amp,
\* microcontroller, logic, memory, driver, one of whose keywords is a
\* case-insensitive substring of its Description or Component_Type, and in
\* ic_analog when no group matches.
C22_FirstKeywordGroup ==
  \A i \in 1..Len(migrated) :
     IsCoarseIc(MigratedRow(i)) => MigratedTable(i) = FirstGroupTable(MigratedRow(i))

\* The groups are tried in their order: a record is never in the table of a
\* group when the description matches the description keywords of an
\* earlier one
GroupsTriedInOrder ==
  \A i \in 1..Len(migrated) :
     IsCoarseIc(MigratedRow(i)) =>
       LET desc == TextOf(MigratedRow(i), N_Description)
           t == MigratedTable(i)
       IN /\ AnyIn(OpampDesc, desc) => t = "ic_opamp"
          /\ (AnyIn(McuDesc, desc) /\ t # "ic_opamp") => t = "ic_microcontrollers"
          /\ (AnyIn(LogicDesc, desc) /\ t \notin {"ic_opamp", "ic_microcontrollers"})
                => t = "ic_logic"

\* C30: the table get_target_table returned for the row at hand is one of
\* the tables create_table_schemas created and a key of part_counter.
C30_TableExists ==
  table_name # "none" =>
    /\ table_name \in target_tables
    /\ Has(part_counter, table_name)

\* C30 witness: an IC with neither Part_ID nor Symbol_Name was counted in
\* part_counter under a table of the secondary dispatch and inserted there.
C30_CountedIc ==
  /\ mpc = "returned"
  /\ \E i \in 1..Len(migrated) :
       /\ IsCoarseIc(MigratedRow(i))
       /\ ~Truthy(GivenPartId(MigratedRow(i)))
       /\ MigratedTable(i) = "ic_analog"
       /\ Lookup(part_counter, "ic_analog") > 0
       /\ migrated[i].part_id = <<"A", "N", "A", "-", "0", "0", "0", "1">>

----------------------------------------------------------------------------
(* The runs over a whole database: dump_database_to_tables of              *)
(* db_to_tables.py, dump_database_to_sql of db_to_sql.py and               *)
(* generate_dbl_file of generate_kicad_dbl_files.py                        *)

\* A table of the database: its schema, its rows, and the failure its dump
\* meets: "schema" when a statement reading the table's schema raises
\* (get_table_schema, line 231), "data" when opening a data file for writing
\* raises (line 286), "none" when nothing fails
Table(sch, rs, f) == [schema |-> sch, rows |-> rs, fault |-> f]

\* dump_table_to_file on a table that may fail: the directory afterwards and
\* whether an exception left the function.  The schema file is written
\* before the first data file is opened.
DumpTable(table, ordered, dir) ==
  LET complete == dump_table_to_file(table.schema, ordered, dir)
      info == get_table_dump_info(table.schema, table.rows)
      with_schema == WriteFile(dir, SchemaFileName(PaddingWidth(info.max_priority)),
                               SchemaContent(table.schema))
  IN IF table.fault = "schema" THEN [dir |-> dir, raised |-> TRUE]
     ELSE IF table.fault = "data" /\ \E f \in complete : f.content.kind = "data"
     THEN [dir |-> with_schema, raised |-> TRUE]
     ELSE [dir |-> complete, raised |-> FALSE]

\* sqlite3.connect(str(db_path)): db_to_tables.py line 316, db_to_sql.py
\* line 123, generate_kicad_dbl_files.py line 91
ConnectDatabase ==
  /\ dpc = "start"
  /\ IF dfault = "connect"
     THEN dpc' = "raised" /\ UNCHANGED open_conns
     ELSE dpc' = "connected" /\ open_conns' = open_conns \cup {"conn"}
  /\ UNCHANGED <<op, dfault, db_tables, table_index, dirs>>
  /\ UNCHANGED <<parserVars, resolveVars, dumpVars, escapeVars, migrateVars, exit_status>>

\* dump_database_to_tables, lines 318-327: get_all_tables, the early return
\* on a database without tables, output_dir.mkdir
GetAllTables ==
  /\ op = "dump_database_to_tables"
  /\ dpc = "connected"
  /\ IF dfault = "query" THEN dpc' = "finally_raise" /\ UNCHANGED table_index
     ELSE IF db_tables = <<>> THEN dpc' = "finally_return" /\ UNCHANGED table_index
     ELSE dpc' = "tables" /\ table_index' = 1
  /\ UNCHANGED <<open_conns, op, dfault, db_tables, dirs>>
  /\ UNCHANGED <<parserVars, resolveVars, dumpVars, escapeVars, migrateVars, exit_status>>

\* One iteration of the loop over tables, lines 330-331: an exception of
\* dump_table_to_file is not caught in the loop
DumpNextTable ==
  /\ op = "dump_database_to_tables"
  /\ dpc = "tables"
  /\ table_index <= Len(db_tables)
  /\ LET table == db_tables[table_index]
     IN \E ordered \in OrderBy(table.rows, SortColumn(table.schema)) :
          LET outcome == DumpTable(table, ordered, dirs[table_index])
          IN /\ dirs' = [dirs EXCEPT ![table_index] = outcome.dir]
             /\ IF outcome.raised
                THEN dpc' = "finally_raise" /\ UNCHANGED table_index
                ELSE table_index' = table_index + 1 /\ UNCHANGED dpc
  /\ UNCHANGED <<open_conns, op, dfault, db_tables>>
  /\ UNCHANGED <<parserVars, resolveVars, dumpVars, escapeVars, migrateVars, exit_status>>

\* The end of the loop, line 333
FinishDump ==
  /\ op = "dump_database_to_tables"
  /\ dpc = "tables"
  /\ table_index > Len(db_tables)
  /\ dpc' = "finally_return"
  /\ UNCHANGED <<open_conns, op, dfault, db_tables, table_index, dirs>>
  /\ UNCHANGED <<parserVars, resolveVars, dumpVars, escapeVars, migrateVars, exit_status>>

\* The INSERT statements of dump_table_data of db_to_sql.py
InsertSqlDbToSql(sch, r) ==
  [table |-> TableName, columns |-> sch.columns,
   values |-> [i \in 1..Len(sch.columns) |-> sql_escape_db_to_sql(r[sch.columns[i]])]]

\* The body of the try block of dump_database_to_sql, lines 126-174, on the
\* first table of the database: get_table_schema raises ValueError when the
\* table is missing, sql_escape raises on a value that is no str, and the
\* script is written when nothing raised
DumpToSql ==
  /\ op = "dump_database_to_sql"
  /\ dpc = "connected"
  /\ IF dfault = "query" \/ db_tables = <<>> \/ db_tables[1].fault = "schema"
     THEN dpc' = "finally_raise" /\ UNCHANGED dirs
     ELSE LET table == db_tables[1]
          IN \E ordered \in OrderBy(table.rows, table.schema.columns[1]) :
               LET stmts == [i \in 1..Len(ordered) |-> InsertSqlDbToSql(table.schema, ordered[i])]
                   raises == \E i \in 1..Len(stmts), c \in 1..Len(table.schema.columns) :
                                stmts[i].values[c].k = "raise"
               IN IF raises \/ table.fault = "data"
                  THEN dpc' = "finally_raise" /\ UNCHANGED dirs
                  ELSE /\ dpc' = "finally_return"
                       /\ dirs' = [dirs EXCEPT ![1] =
                            WriteFile(@, S_sql,
                              [kind |-> "script", create_table_sql |-> table.schema,
                               count |-> Len(stmts), inserts |-> stmts])]
  /\ UNCHANGED <<open_conns, op, dfault, db_tables, table_index>>
  /\ UNCHANGED <<parserVars, resolveVars, dumpVars, escapeVars, migrateVars, exit_status>>

\* The finally clause: db_to_tables.py lines 335-336, db_to_sql.py lines
\* 176-177
CloseDatabase ==
  /\ dpc \in {"finally_return", "finally_raise"}
  /\ open_conns' = open_conns \ {"conn"}
  /\ dpc' = IF dpc = "finally_return" THEN "returned" ELSE "raised"
  /\ UNCHANGED <<op, dfault, db_tables, table_index, dirs>>
  /\ UNCHANGED <<parserVars, resolveVars, dumpVars, escapeVars, migrateVars, exit_status>>

\* generate_dbl_file, lines 93-101: get_table_columns and the field
\* configurations; there is no try block around them
GetTableColumns ==
  /\ op = "generate_dbl_file"
  /\ dpc = "connected"
  /\ dpc' = IF dfault = "query" THEN "raised" ELSE "columns"
  /\ UNCHANGED <<open_conns, op, dfault, db_tables, table_index, dirs>>
  /\ UNCHANGED <<parserVars, resolveVars, dumpVars, escapeVars, migrateVars, exit_status>>

\* generate_dbl_file, line 103: conn.close()
CloseAfterColumns ==
  /\ op = "generate_dbl_file"
  /\ dpc = "columns"
  /\ open_conns' = open_conns \ {"conn"}
  /\ dpc' = "closed"
  /\ UNCHANGED <<op, dfault, db_tables, table_index, dirs>>
  /\ UNCHANGED <<parserVars, resolveVars, dumpVars, escapeVars, migrateVars, exit_status>>

\* generate_dbl_file, lines 105-138: the .kicad_dbl file of the first table,
\* with the columns PRAGMA table_info gave (none for a missing table)
WriteDblFile ==
  /\ op = "generate_dbl_file"
  /\ dpc = "closed"
  /\ dirs' = [dirs EXCEPT ![1] =
       WriteFile(@, <<"d", "b", "l">>,
         [kind |-> "dbl",
          columns |-> IF db_tables = <<>> THEN <<>> ELSE db_tables[1].schema.columns])]
  /\ dpc' = "returned"
  /\ UNCHANGED <<open_conns, op, dfault, db_tables, table_index>>
  /\ UNCHANGED <<parserVars, resolveVars, dumpVars, escapeVars, migrateVars, exit_status>>

----------------------------------------------------------------------------
(* The databases the runs are made on *)

\* Most tables of the database
MaxTables == 3

\* The schemas of the tables: with both partition columns or with neither,
\* key being the primary key
TableSchemas ==
  {s \in Schemas : s.pk["key"] = 1
                   /\ (HasColumn(s, "dump_priority") <=> HasColumn(s, "source"))}

\* The row a table holds when it is not empty
TableRow(sch) ==
  [key |-> IntVal(1), val |-> Str(<<"a">>),
   dump_priority |-> IF HasColumn(sch, "dump_priority") THEN IntVal(3) ELSE None,
   source |-> IF HasColumn(sch, "source") THEN Str(S_static) ELSE None]

Tables ==
  {Table(s, rs, f) : s \in TableSchemas, rs \in {{}}, f \in {"none"}}
    \cup UNION {{Table(s, {TableRow(s)}, f) : f \in {"none", "schema", "data"}} :
                  s \in TableSchemas}
    \cup {Table(s, {}, "schema") : s \in TableSchemas}

Operations == {"dump_database_to_tables", "dump_database_to_sql", "generate_dbl_file"}

DatabaseInit ==
  /\ op \in Operations
  /\ dfault \in {"none", "connect", "query"}
  /\ dpc = "start"
  /\ db_tables \in SeqsUpTo(Tables, MaxTables)
  /\ table_index = 0
  /\ dirs = [i \in 1..(IF op = "dump_database_to_tables" THEN Len(db_tables) ELSE 1) |-> {}]
  /\ open_conns = {}

InitDatabase ==
  ParserIdle /\ ResolveIdle /\ DumpIdle /\ EscapeIdle /\ MigrateIdle /\ DatabaseInit
    /\ exit_status = "none"
NextDatabase ==
  \/ ConnectDatabase
  \/ GetAllTables
  \/ DumpNextTable
  \/ FinishDump
  \/ DumpToSql
  \/ CloseDatabase
  \/ GetTableColumns
  \/ CloseAfterColumns
  \/ WriteDblFile
SpecDatabase == InitDatabase /\ [][NextDatabase]_vars

\* Every run that opens a connection
InitHandles == InitMigrate \/ InitDatabase
NextHandles == NextMigrate \/ NextDatabase
SpecHandles == InitHandles /\ [][NextHandles]_vars

----------------------------------------------------------------------------
(* Failures of one table and the release of the connections: C24, C26 *)

\* The artifacts a table's dump writes when nothing fails
CompleteArtifacts(table) ==
  {dump_table_to_file(table.schema, ordered, {}) :
     ordered \in OrderBy(table.rows, SortColumn(table.schema))}

\* Whether the dump of the table raises
TableFails(table) ==
  \E ordered \in OrderBy(table.rows, SortColumn(table.schema)) :
     DumpTable(table, ordered, {}).raised

DumpRunOver ==
  /\ op = "dump_database_to_tables"
  /\ dfault = "none"
  /\ dpc \in {"returned", "raised"}

\* C24: when a run of dump_database_to_tables is over, every table whose
\* dump does not fail has its schema and data artifacts, whether it comes
\* before or after a failing table, and a table whose dump fails has no
\* artifact at all.
C24_FailureOfOneTableOnly ==
  DumpRunOver =>
    \A i \in 1..Len(db_tables) :
       IF TableFails(db_tables[i]) THEN dirs[i] = {}
       ELSE dirs[i] \in CompleteArtifacts(db_tables[i])

\* The tables before the first failing one have their artifacts
TablesBeforeFailureDumped ==
  DumpRunOver =>
    \A i \in 1..Len(db_tables) :
       (\A j \in 1..i : ~TableFails(db_tables[j])) =>
          dirs[i] \in CompleteArtifacts(db_tables[i])

\* C26: when a run of migrate_data, dump_database_to_tables,
\* dump_database_to_sql or generate_dbl_file has returned or raised, no
\* connection it opened is still open.
C26_ConnectionsClosed ==
  (mpc \in {"returned", "raised"} \/ dpc \in {"returned", "raised"}) => open_conns = {}

\* The two dumpers close their connection on every exit path, and the other
\* two operations on every path but the failures outside a try block
ConnectionsClosedByFinally ==
  /\ (dpc \in {"returned", "raised"} /\ op # "generate_dbl_file") => open_conns = {}
  /\ (dpc = "returned" \/ mpc = "returned") => open_conns = {}
  /\ (mpc = "raised" /\ fault # "connect_target") => open_conns = {}

----------------------------------------------------------------------------
(* kicad_sym_to_db.main: from the text of the library to the symbols *)

\* main, lines 663-669: the parser raised; "Error parsing file" and
\* sys.exit(1)
ExitOnParseError ==
  /\ pc = "error"
  /\ rpc = "parsed"
  /\ rpc' = "exited"
  /\ exit_status' = "1"
  /\ UNCHANGED <<symbols, name_mappings, mapping_patterns, fields, field_mapping,
                 column_values, library_name, column_edits, unique_columns>>
  /\ UNCHANGED <<parserVars, dumpVars, escapeVars, open_conns, migrateVars, databaseVars>>

\* main, lines 673-675: no symbols; "Warning: No symbols found in the
\* library" and sys.exit(1)
ExitOnNoSymbols ==
  /\ rpc = "extracted"
  /\ symbols = <<>>
  /\ rpc' = "exited"
  /\ exit_status' = "1"
  /\ UNCHANGED <<symbols, name_mappings, mapping_patterns, fields, field_mapping,
                 column_values, library_name, column_edits, unique_columns>>
  /\ UNCHANGED <<parserVars, dumpVars, escapeVars, open_conns, migrateVars, databaseVars>>

\* main before the parser is called, on the text of the input file
MainInit ==
  /\ ParserInit
  /\ symbols = <<>>
  /\ name_mappings = <<>>
  /\ mapping_patterns = <<>>
  /\ fields = {}
  /\ field_mapping = <<>>
  /\ column_values = <<>>
  /\ rpc = "parsed"
  /\ library_name = Str(<<"l">>)
  /\ column_edits = <<>>
  /\ unique_columns = <<>>

\* main on a text, and main after the parser returned one of the libraries
InitMain == (MainInit \/ ExtractInit) /\ DumpIdle /\ EscapeIdle /\ ToolsIdle
NextMain ==
  \/ ParseCall
  \/ ParseList
  \/ ExitOnParseError
  \/ ExtractSymbols
  \/ ExitOnNoSymbols
SpecMain == InitMain /\ [][NextMain]_vars

\* C25: after the parser returned a tree in which extraction found no
\* definition, main does not end with the failure status 1, the status it
\* ends with on a parse error.
C25_EmptyResultNotFatal ==
  (pc = "done" /\ rpc \in {"extracted", "exited"} /\ symbols = <<>>) => exit_status # "1"

\* Extraction itself gives the empty list on such a tree, and main then
\* exits with the status of a parse error
EmptyResultExitsLikeParseError ==
  rpc = "exited" => exit_status = "1" /\ symbols = <<>>

----------------------------------------------------------------------------
(* populate_spice_fields on the designators of the classifier: C27 *)

\* The designators of REFERENCE_TO_TABLE that are no passive component
NonPassiveReferences ==
  {<<"F", "B">>, <<"Q">>, <<"D">>, <<"J">>, <<"L", "E", "D">>, <<"S", "W">>, <<"U">>,
   <<"I", "C">>}

SimFields == {N_Sim_Device, N_Sim_Pins, N_Sim_Type, N_Sim_Library}

\* Symbols with every designator of the classifier, with and without a
\* Value, with and without simulation fields of their own
DesignatorSymbols ==
  {Extracted(SpiceNames, <<d, Absent, Str(r), v, p, p, p>>) :
     d \in {Absent, Str(<<"X">>)},
     r \in {REFERENCE_TO_TABLE[i].key : i \in 1..Len(REFERENCE_TO_TABLE)},
     v \in {Absent, Str(<<>>), Str(<<"1", "0", "k">>)},
     p \in {Absent, Str(<<"X">>)}}

SpiceInit ==
  /\ symbols \in {<<s>> : s \in DesignatorSymbols}
  /\ name_mappings = <<>>
  /\ mapping_patterns = <<>>
  /\ fields = {}
  /\ field_mapping = <<>>
  /\ column_values = <<>>
  /\ rpc = "extracted"
  /\ library_name = Str(<<"l">>)
  /\ column_edits = <<>>
  /\ unique_columns = <<>>

InitSpice == ParserIdle /\ SpiceInit /\ DumpIdle /\ EscapeIdle /\ ToolsIdle
SpecSpice == InitSpice /\ [][NextResolve]_vars

IsNonPassive(sym) ==
  Get(sym, N_Reference).k = "str" /\ Get(sym, N_Reference).s \in NonPassiveReferences

\* C27: populate_spice_fields leaves the four simulation fields of every
\* record with a non-passive designator (FB, Q, D, J, LED, SW, U, IC) as the
\* record supplied them, None when it had none, whatever its Value.
C27_NonPassiveUntouched ==
  [][(rpc = "created" /\ rpc' = "generated") =>
       \A i \in 1..Len(symbols) :
          IsNonPassive(symbols[i]) =>
            \A f \in SimFields : Get(symbols'[i], f) = Get(symbols[i], f)]_vars

\* The same for the non-passive designators that do not begin with R, L or C
NonPassiveOtherLetterUntouched ==
  [][(rpc = "created" /\ rpc' = "generated") =>
       \A i \in 1..Len(symbols) :
          (IsNonPassive(symbols[i]) /\ Get(symbols[i], N_Reference).s[1] \notin {"R", "L", "C"}) =>
            \A f \in SimFields : Get(symbols'[i], f) = Get(symbols[i], f)]_vars

----------------------------------------------------------------------------
(* Progress of the parser: C28 *)

\* The parser is scheduled until parse() returns or raises
SpecParseFair == SpecParse /\ WF_vars(NextParse)

ParseOver == pc \in {"done", "error"}

\* C28: the cursor stays within 0..length and never decreases; every call
\* of parse made from inside a list (a nested list, parse_string,
\* parse_atom) and every iteration of the list loop that goes on with the
\* same list consumes at least one character; parse ends, with a tree or
\* with an error.
C28_ParserProgress ==
  /\ [](0 <= pos /\ pos <= Len(text))
  /\ [][/\ pos' >= pos
        /\ (pc = "call" /\ stack # <<>>) => pos' > pos
        /\ (pc = "list" /\ pc' = "list") => pos' > pos]_vars
  /\ <>ParseOver

\* C28 witness: parse returned the tree of '(())' with the cursor at the
\* end of the text.
C28_NestedListParsed ==
  /\ pc = "done"
  /\ text = <<"(", "(", ")", ")">>
  /\ pos = Len(text)
  /\ result = List(<<List(<<>>)>>)

----------------------------------------------------------------------------
(* The data artifacts of one table: C23, C29 *)

HasPartitionColumns == HasColumn(schema, "dump_priority") /\ HasColumn(schema, "source")

\* The rows of the group (p, s) of a table with both partition columns
RowsOfGroup(p, s) == {r \in rows : r.dump_priority = IntVal(p) /\ r.source = Str(s)}

\* The lines of a script of the given kind
LinesOfKind(script, kind) == {i \in 1..Len(script) : script[i].kind = kind}

\* The script is one BEGIN TRANSACTION, the given INSERT statements in their
\* order, one COMMIT
IsTransaction(script, stmts) ==
  /\ Len(script) = Len(stmts) + 2
  /\ LinesOfKind(script, "BEGIN TRANSACTION;") = {1}
  /\ LinesOfKind(script, "COMMIT;") = {Len(script)}
  /\ \A i \in 1..Len(stmts) : script[i + 1] = Line("INSERT", stmts[i])

\* The statements are the INSERTs of the given rows, one per row, in an
\* ascending order of the sort column
InsertsOfRowsInOrder(stmts, rs) ==
  \E ordered \in OrderBy(rs, SortColumn(schema)) :
     stmts = [i \in 1..Len(ordered) |-> InsertSql(schema, ordered[i])]

\* C23: every data artifact in the table's directory is a header with the
\* row count and the priority and source of its group, then one BEGIN
\* TRANSACTION, one INSERT per row of the group in ascending order of the
\* sort column, and one COMMIT; the count of the header is the number of
\* INSERTs, and no artifact is without an INSERT.
C23_ArtifactShape ==
  \A f \in DataFiles :
     LET c == f.content
         inserts == [i \in 1..(Len(c.script) - 2) |-> c.script[i + 1].stmt]
     IN /\ IsTransaction(c.script, inserts)
        /\ c.count = Len(inserts)
        /\ c.count > 0
        /\ c.sort_column = SortColumn(schema)
        /\ IF HasPartitionColumns
           THEN InsertsOfRowsInOrder(inserts, RowsOfGroup(c.dump_priority, c.source))
           ELSE \E rs \in SUBSET rows : InsertsOfRowsInOrder(inserts, rs)

\* C23 witness: a data artifact of a group of two rows, written with its
\* two INSERTs between BEGIN and COMMIT.
C23_TwoRowArtifact ==
  /\ runs = 1
  /\ HasPartitionColumns
  /\ \E f \in DataFiles :
       /\ f.content.count = 2
       /\ Len(f.content.script) = 4
       /\ Cardinality(RowsOfGroup(f.content.dump_priority, f.content.source)) = 2

\* The rows the partition covers
Partitioned(r) ==
  /\ r.dump_priority # None
  /\ r.dump_priority.n > 0
  /\ r.source # None
  /\ r.source # Str(<<>>)

\* The data artifacts that hold the INSERT of the row, and how often
ArtifactsWithRow(r) ==
  {f \in DataFiles :
     \E i \in 1..Len(f.content.script) : f.content.script[i] = Line("INSERT", InsertSql(schema, r))}
TimesInArtifact(f, r) ==
  Cardinality({i \in 1..Len(f.content.script) :
                 f.content.script[i] = Line("INSERT", InsertSql(schema, r))})

\* C29: after one dump run of a table with both partition columns, every
\* row with dump_priority > 0 and a non-empty source is written as exactly
\* one INSERT in exactly one data artifact, the one of its own
\* (dump_priority, source) group.
C29_PartitionCoverage ==
  (runs = 1 /\ HasPartitionColumns) =>
    \A r \in rows :
       Partitioned(r) =>
         /\ Cardinality(ArtifactsWithRow(r)) = 1
         /\ \A f \in ArtifactsWithRow(r) :
              /\ TimesInArtifact(f, r) = 1
              /\ f.content.dump_priority = r.dump_priority.n
              /\ f.content.source = r.source.s

\* No row is written twice, and every row written is in the artifact of
\* its own group
NoRowWrittenTwice ==
  (runs = 1 /\ HasPartitionColumns) =>
    \A r \in rows :
       /\ Cardinality(ArtifactsWithRow(r)) <= 1
       /\ \A f \in ArtifactsWithRow(r) :
            /\ TimesInArtifact(f, r) = 1
            /\ Partitioned(r)
            /\ f.content.dump_priority = r.dump_priority.n
            /\ f.content.source = r.source.s
====
